---- MODULE Spec2Model ----
(***************************************************************************)
(* Model of the ETN certificate monitor (nsx-etn-monitoring):              *)
(*   - SchedulerService.sync_nsx_nodes   (app/scheduler.py)                *)
(*   - SchedulerService.check_certificates / send_expiry_notifications     *)
(*   - TelegramNotifier.check_and_notify_expiring_certs and                *)
(*     _send_cert_notifications          (app/telegram_notifier.py)        *)
(*   - CertificateChecker.check_certificate and                            *)
(*     check_multiple_certificates       (app/ssh_checker.py)              *)
(*   - the tables of app/models.py                                         *)
(*   - NSXClient.get_edge_transport_nodes (app/nsx_client.py) and         *)
(*     Config.get_etn_whitelist          (app/config.py)                   *)
(*   - lifespan and dashboard            (app/main.py)                     *)
(* Every coroutine is cut at its awaits: the code between two awaits runs  *)
(* atomically on the event loop, and tasks interleave at the awaits.       *)
(***************************************************************************)
EXTENDS Integers, Sequences, FiniteSets, Bags, TLC

VARIABLES
    nodes,          \* table transport_nodes: id -> row, for the persisted ids
    events,         \* table node_events, in insertion order
    checks,         \* table certificate_checks, in insertion (checked_at) order
    notifications,  \* table telegram_notifications: bag of rows
    delivered,      \* bag of the messages the Telegram sink accepted
    day,            \* the calendar date date.today() returns
    bot,            \* TelegramNotifier.bot is configured
    pc,             \* per task: the await it is suspended at
    loc,            \* per task: the local variables of its coroutine
    started,        \* number of runs started so far, per job
    lastSync,       \* history: the snapshot of the latest committed reconciliation
    cls,            \* classification under test: days, threshold, tier
    unit,           \* probe or fan-out under test: its inputs and its results
    life            \* the lifespan of the application: its position, its task

vars == <<nodes, events, checks, notifications, delivered, day, bot,
          pc, loc, started, lastSync, cls, unit, life>>

-----------------------------------------------------------------------------
(* Bounds of the model *)

MaxNodes == 2
MaxTasks == 2
MaxSyncs == 3
MaxChecks == 1
MaxSweeps == 2
MaxDay == 2
MaxDays == 35
MaxThreshold == 32
TicksPerDay == 4
MaxSpan == 12
MaxHosts == 5
MaxTriggers == 1
MaxRequests == 1

(* Program constants *)

CERT_WARNING_DAYS == 30
CriticalDays == 7
FailedDays == -999

NodeIds == 1..MaxNodes
Tasks == 1..MaxTasks
Days == 1..MaxDay

\* The attribute values the inventory source reports for a node: two
\* revisions of (display_name, ip_address, maintenance_mode).
Revisions == {1, 2}
InventoryRecord(id, rev) ==
    [display_name |-> <<"name", id, rev>>,
     ip_address |-> <<"ip", id, rev>>,
     maintenance_mode |-> IF rev = 1 THEN "DISABLED" ELSE "ENABLED"]

RECURSIVE SeqOf(_)
\* the elements of a finite set of integers, ascending
SeqOf(S) ==
    IF S = {} THEN <<>>
    ELSE LET m == CHOOSE x \in S : \A y \in S : x <= y
         IN <<m>> \o SeqOf(S \ {m})

Range(s) == {s[i] : i \in 1..Len(s)}

\* no probe and no fan-out is under test
NoUnit == [kind |-> "none"]

\* no run of any job has started: the timer jobs and the manual trigger of
\* check_certificates
NoneStarted == [sync |-> 0, check |-> 0, sweep |-> 0, trigger |-> 0]

\* the application is up: startup is over and requests are served
Serving == [phase |-> "serving", task |-> 0, requests |-> 0]

\* An optional value: None, or the one-element sequence that holds the value.
None == <<>>
Some(v) == <<v>>

-----------------------------------------------------------------------------
(* Inventory fetch: NSXClient *)

\* What the inventory source answers: a failure (authentication failure,
\* non-200 status, exception in the request) or 200 with a result list.
Responses ==
    [status : {"auth_failed", "http_error", "exception"}, results : {<<>>}]
    \cup
    {[status |-> "ok", results |-> [id \in ids |-> InventoryRecord(id, rev)]] :
        ids \in SUBSET NodeIds, rev \in Revisions}

\* NSXClient.get_transport_nodes: the result list on 200, [] on any failure.
get_transport_nodes(response) ==
    IF response.status = "ok" THEN response.results ELSE <<>>

\* NSXClient.get_edge_transport_nodes: the edge nodes with an address. Every
\* node of Responses is an EdgeNode with one address and no allow-list is set.
get_edge_transport_nodes(response) ==
    LET all_nodes == get_transport_nodes(response)
    IN [id \in {i \in DOMAIN all_nodes : all_nodes[i].ip_address # ""} |->
            all_nodes[id]]

-----------------------------------------------------------------------------
(* Reconciliation: the set computations of sync_nsx_nodes *)

new_node_ids(nsx_nodes, existing_nodes) ==
    DOMAIN nsx_nodes \ DOMAIN existing_nodes

removed_node_ids(nsx_nodes, existing_nodes) ==
    DOMAIN existing_nodes \ DOMAIN nsx_nodes

\* faulty variant: a reconciliation that never recognises a node that came back
reappeared_never(nsx_nodes, existing_nodes) == {}

reappeared_node_ids(nsx_nodes, existing_nodes) ==
    {nid \in DOMAIN nsx_nodes :
        nid \in DOMAIN existing_nodes /\ ~existing_nodes[nid].is_active}

NodeEvent(node_id, event_type, display_name, ip_address) ==
    [node_id |-> node_id, event_type |-> event_type,
     display_name |-> display_name, ip_address |-> ip_address]

RECURSIVE DiscoveredEvents(_, _, _)
\* the events the loop over nsx_nodes adds, in loop order
DiscoveredEvents(ids, nsx_nodes, existing_nodes) ==
    IF ids = <<>> THEN <<>>
    ELSE LET node_id == Head(ids)
             node == nsx_nodes[node_id]
             ev == IF node_id \in new_node_ids(nsx_nodes, existing_nodes)
                   THEN <<NodeEvent(node_id, "added", node.display_name,
                                    node.ip_address)>>
                   ELSE IF node_id \in reappeared_node_ids(nsx_nodes, existing_nodes)
                   THEN <<NodeEvent(node_id, "reappeared", node.display_name,
                                    node.ip_address)>>
                   ELSE <<>>
         IN ev \o DiscoveredEvents(Tail(ids), nsx_nodes, existing_nodes)

RECURSIVE RemovedEvents(_, _)
\* the events the loop over removed_node_ids adds
RemovedEvents(ids, existing_nodes) ==
    IF ids = <<>> THEN <<>>
    ELSE LET node == existing_nodes[Head(ids)]
         IN <<NodeEvent(Head(ids), "removed", node.display_name,
                        node.ip_address)>>
            \o RemovedEvents(Tail(ids), existing_nodes)

\* every NodeEvent one run adds to its session, in the order of db.add
SyncEvents(nsx_nodes, existing_nodes) ==
    DiscoveredEvents(SeqOf(DOMAIN nsx_nodes), nsx_nodes, existing_nodes)
    \o RemovedEvents(SeqOf(removed_node_ids(nsx_nodes, existing_nodes)),
                     existing_nodes)

\* the row sync_nsx_nodes inserts for a new node
NewRow(node) ==
    [display_name |-> node.display_name, ip_address |-> node.ip_address,
     maintenance_mode |-> node.maintenance_mode, is_active |-> TRUE]

\* the attribute values sync_nsx_nodes assigns to a loaded row
AssignedRow(node_id, nsx_nodes, existing_nodes) ==
    LET loaded == existing_nodes[node_id]
    IN IF node_id \in DOMAIN nsx_nodes
       THEN [display_name |-> nsx_nodes[node_id].display_name,
             ip_address |-> nsx_nodes[node_id].ip_address,
             maintenance_mode |-> nsx_nodes[node_id].maintenance_mode,
             is_active |-> IF node_id \in reappeared_node_ids(nsx_nodes, existing_nodes)
                           THEN TRUE ELSE loaded.is_active]
       ELSE [loaded EXCEPT !.is_active = FALSE]

\* The UPDATE the unit of work flushes for a loaded row sets only the
\* columns whose assigned value differs from the loaded one; the others keep
\* what the table holds at commit time.
FlushedRow(current, loaded, assigned) ==
    [f \in DOMAIN current |->
        IF assigned[f] # loaded[f] THEN assigned[f] ELSE current[f]]

\* faulty variant: a flush that deletes the rows of the nodes found gone
NodesAfterDelete(table, nsx_nodes, existing_nodes) ==
    [id \in (DOMAIN table \ removed_node_ids(nsx_nodes, existing_nodes))
             \cup DOMAIN nsx_nodes |->
        IF id \in DOMAIN existing_nodes
        THEN FlushedRow(table[id], existing_nodes[id],
                        AssignedRow(id, nsx_nodes, existing_nodes))
        ELSE IF id \in DOMAIN nsx_nodes THEN NewRow(nsx_nodes[id])
        ELSE table[id]]

\* the transport_nodes table after a run's flush
NodesAfterSync(table, nsx_nodes, existing_nodes) ==
    [id \in DOMAIN table \cup DOMAIN nsx_nodes |->
        IF id \in DOMAIN existing_nodes
        THEN FlushedRow(table[id], existing_nodes[id],
                        AssignedRow(id, nsx_nodes, existing_nodes))
        ELSE IF id \in DOMAIN nsx_nodes THEN NewRow(nsx_nodes[id])
        ELSE table[id]]

\* faulty variant: a table without a primary key, where a second INSERT of
\* an id is accepted
NoPrimaryKey(table, nsx_nodes, existing_nodes) == FALSE

\* INSERT of a primary key the table already holds raises IntegrityError
PrimaryKeyConflict(table, nsx_nodes, existing_nodes) ==
    new_node_ids(nsx_nodes, existing_nodes) \cap DOMAIN table # {}

\* faulty variant: a commit that can store the node rows and lose the events
SyncCommitPartial(table, log, nsx_nodes, existing_nodes) ==
    {[ok |-> FALSE, nodes |-> table, events |-> log],
     [ok |-> FALSE,
      nodes |-> NodesAfterSync(table, nsx_nodes, existing_nodes),
      events |-> log],
     [ok |-> TRUE,
      nodes |-> NodesAfterSync(table, nsx_nodes, existing_nodes),
      events |-> log \o SyncEvents(nsx_nodes, existing_nodes)]}

\* db.commit() of sync_nsx_nodes: the session (autoflush off, one commit)
\* flushes the inserts, updates and events in one transaction. Either all of
\* it is stored, or the commit raises (a primary key conflict, or any fault
\* of the store), the session rolls back on exit and nothing is stored.
SyncCommitOutcomes(table, log, nsx_nodes, existing_nodes) ==
    LET rolled_back == [ok |-> FALSE, nodes |-> table, events |-> log]
        committed == [ok |-> TRUE,
                      nodes |-> NodesAfterSync(table, nsx_nodes, existing_nodes),
                      events |-> log \o SyncEvents(nsx_nodes, existing_nodes)]
    IN IF PrimaryKeyConflict(table, nsx_nodes, existing_nodes)
       THEN {rolled_back}
       ELSE {committed, rolled_back}

\* faulty variant: a cycle that reconciles whatever the fetch returned
SkipNever(nsx_nodes) == FALSE

\* "if not nsx_nodes: return"
SkipCycle(nsx_nodes) == DOMAIN nsx_nodes = {}

-----------------------------------------------------------------------------
(* Tasks *)

NoLocals ==
    [job |-> "none", fetch_ok |-> FALSE,
     nsx_nodes |-> <<>>, existing_nodes |-> <<>>, outcome |-> "none",
     new_nodes |-> {}, removed_nodes |-> {},
     hosts |-> {}, check_results |-> <<>>,
     tiers |-> <<>>, today_str |-> 0, tier |-> 0, pending |-> <<>>,
     to_notify |-> {}, sent |-> FALSE, note |-> "none"]

\* what is still known of a coroutine that has returned: its job and the
\* outcome of its steps
Returned(l) ==
    [NoLocals EXCEPT !.job = l.job, !.fetch_ok = l.fetch_ok,
                     !.outcome = l.outcome, !.note = l.note]

\* A run takes the first free task slot. The scheduler keeps one running
\* instance per job id (the jobs are added with the default instance limit),
\* which limits send_expiry_notifications, started by its timer only. The
\* manual triggers of sync_nsx_nodes and check_certificates create their
\* tasks directly, in any number, beside the timer's instance.
MayStart(p, job) ==
    /\ pc[p] = "idle"
    /\ \A q \in Tasks : q < p => pc[q] # "idle"
    /\ job = "sweep" =>
         \A q \in Tasks : ~(pc[q] # "idle" /\ loc[q].job = "sweep")

\* The lifespan runs run_initial_sync without a suspension between the
\* return of sync_nsx_nodes and the call of check_certificates, and between
\* the return of check_certificates and its yield.
StartupGap ==
    /\ life.phase \in {"initial_sync", "initial_check"}
    /\ pc[life.task] = "idle"

\* The scheduler fires a job once scheduler_service.start() has run, when the
\* event loop gets control.
SchedulerMayFire == life.phase # "created" /\ ~StartupGap

\* where sync_nsx_nodes suspends next once its commit has returned
AfterSyncCommit(new_nodes, removed_nodes) ==
    IF new_nodes # {} /\ bot THEN "sync_notify_new"
    ELSE IF removed_nodes # {} /\ bot THEN "sync_notify_removed"
    ELSE "idle"

Message(type, node_ids, date) ==
    [type |-> type, nodes |-> node_ids, day |-> date]

\* sync_nsx_nodes up to its first await: the inventory fetch (a blocking
\* call) and the early return on an empty list.
BeginSync(p, response) ==
    /\ MayStart(p, "sync")
    /\ LET nsx_nodes == get_edge_transport_nodes(response)
           l == [NoLocals EXCEPT !.job = "sync",
                                 !.fetch_ok = (response.status = "ok"),
                                 !.nsx_nodes = nsx_nodes]
       IN IF SkipCycle(nsx_nodes)
          THEN /\ loc' = [loc EXCEPT ![p] =
                               Returned([l EXCEPT !.outcome = "skipped"])]
               /\ pc' = [pc EXCEPT ![p] = "idle"]
          ELSE /\ loc' = [loc EXCEPT ![p] = l]
               /\ pc' = [pc EXCEPT ![p] = "sync_read"]
    /\ UNCHANGED <<nodes, events, checks, notifications, delivered, day, bot,
                   lastSync, cls, unit>>

\* a run of sync_nsx_nodes the scheduler's timer or a manual trigger starts
StartSync(p, response) ==
    /\ SchedulerMayFire
    /\ started.sync < MaxSyncs
    /\ started' = [started EXCEPT !.sync = @ + 1]
    /\ BeginSync(p, response)
    /\ UNCHANGED life

\* "await db.execute(select(TransportNode))"
SyncRead(p) ==
    /\ pc[p] = "sync_read"
    /\ loc' = [loc EXCEPT ![p].existing_nodes = nodes]
    /\ pc' = [pc EXCEPT ![p] = "sync_commit"]
    /\ UNCHANGED <<nodes, events, checks, notifications, delivered, day, bot,
                   started, lastSync, cls, unit, life>>

\* faulty variant: a job without its except clause, whose exception reaches
\* the caller
Propagated == "raised"

\* faulty variant: a run that goes on to its notifications after an
\* exception
NotifiedAnyway == "sync_notify_new"

\* "except Exception as e: logger.error(...)": the job logs the exception
\* and returns
Logged == "idle"

\* the loops over nsx_nodes and removed_node_ids, then "await db.commit()"
ReconcileAndCommit(p) ==
    /\ pc[p] = "sync_commit"
    /\ LET nsx_nodes == loc[p].nsx_nodes
           existing_nodes == loc[p].existing_nodes
           new_nodes == new_node_ids(nsx_nodes, existing_nodes)
           removed_nodes == removed_node_ids(nsx_nodes, existing_nodes)
           next == AfterSyncCommit(new_nodes, removed_nodes)
           l == [loc[p] EXCEPT !.outcome = "committed", !.new_nodes = new_nodes,
                               !.removed_nodes = removed_nodes]
       IN \E out \in SyncCommitOutcomes(nodes, events, nsx_nodes, existing_nodes) :
            /\ nodes' = out.nodes
            /\ events' = out.events
            /\ IF out.ok
               THEN /\ pc' = [pc EXCEPT ![p] = next]
                    /\ loc' = [loc EXCEPT ![p] =
                                 IF next = "idle" THEN Returned(l) ELSE l]
                    /\ lastSync' = nsx_nodes
               ELSE /\ pc' = [pc EXCEPT ![p] = Logged]
                    /\ loc' = [loc EXCEPT ![p] =
                                 Returned([loc[p] EXCEPT !.outcome = "rolled_back"])]
                    /\ UNCHANGED lastSync
    /\ UNCHANGED <<checks, notifications, delivered, day, bot, started, cls, life>>

\* the commit step of a run of sync_nsx_nodes
SyncCommit(p) ==
    /\ ReconcileAndCommit(p)
    /\ UNCHANGED unit

\* TelegramNotifier.send_message: True when the sink accepted the message,
\* False when it raised.
SendOutcomes == {TRUE, FALSE}

\* "await self.telegram.notify_new_nodes(new_nodes)"
SyncNotifyNew(p) ==
    /\ pc[p] = "sync_notify_new"
    /\ \E ok \in SendOutcomes :
         delivered' = IF ok
                      THEN delivered (+) SetToBag(
                               {Message("new_nodes", loc[p].new_nodes, day)})
                      ELSE delivered
    /\ IF loc[p].removed_nodes # {}
       THEN /\ pc' = [pc EXCEPT ![p] = "sync_notify_removed"]
            /\ UNCHANGED loc
       ELSE /\ pc' = [pc EXCEPT ![p] = "idle"]
            /\ loc' = [loc EXCEPT ![p] = Returned(loc[p])]
    /\ UNCHANGED <<nodes, events, checks, notifications, day, bot,
                   started, lastSync, cls, unit, life>>

\* "await self.telegram.notify_removed_nodes(removed_nodes)"
SyncNotifyRemoved(p) ==
    /\ pc[p] = "sync_notify_removed"
    /\ \E ok \in SendOutcomes :
         delivered' = IF ok
                      THEN delivered (+) SetToBag(
                               {Message("removed_nodes", loc[p].removed_nodes, day)})
                      ELSE delivered
    /\ pc' = [pc EXCEPT ![p] = "idle"]
    /\ loc' = [loc EXCEPT ![p] = Returned(loc[p])]
    /\ UNCHANGED <<nodes, events, checks, notifications, day, bot,
                   started, lastSync, cls, unit, life>>

-----------------------------------------------------------------------------
(* Certificate checks: SchedulerService.check_certificates *)

\* What CertificateChecker.check_certificate returns for one host: success
\* with an expiry date and a day count, or a failure status with neither.
ProbeDays == {0, 5, 20}
ProbeFailures == {"error", "timeout"}
ProbeOutcomes ==
    {[status |-> "success", cert_expiry_date |-> Some(d * TicksPerDay),
      days_remaining |-> Some(d)] : d \in ProbeDays}
    \cup
    [status : ProbeFailures, cert_expiry_date : {None},
     days_remaining : {None}]

\* "result['cert_expiry_date']" raises KeyError on a result without the key
HasExpiryKey(result) == "cert_expiry_date" \in DOMAIN result

\* the CertificateCheck row check_certificates stores for one result
CertificateCheck(node_id, result) ==
    [node_id |-> node_id,
     cert_expiry_date |-> result.cert_expiry_date,
     days_remaining |-> IF result.cert_expiry_date # None
                        THEN result.days_remaining[1] ELSE FailedDays,
     check_status |-> result.status]

RECURSIVE CheckRecords(_, _)
\* the rows of one cycle, in the order of the host list
CheckRecords(ids, check_results) ==
    IF ids = <<>> THEN <<>>
    ELSE <<CertificateCheck(Head(ids), check_results[Head(ids)])>>
         \o CheckRecords(Tail(ids), check_results)

\* the INSERT of the rows: checked_at takes its default, datetime.utcnow
\* at the flush (to the day)
Inserted(rows, utcnow) ==
    [i \in 1..Len(rows) |->
        [node_id |-> rows[i].node_id,
         cert_expiry_date |-> rows[i].cert_expiry_date,
         days_remaining |-> rows[i].days_remaining,
         check_status |-> rows[i].check_status,
         checked_at |-> utcnow]]

\* faulty variant: rows stored ahead of the history
PrependRows(history, rows) == rows \o history

\* the rows of a flush take the next ids of the table
AppendRows(history, rows) == history \o rows

\* faulty variant: a query without its is_active filter
AllNodes(table) == DOMAIN table

\* "select(TransportNode).where(TransportNode.is_active == True)"
ActiveNodes(table) == {id \in DOMAIN table : table[id].is_active}

-----------------------------------------------------------------------------
(* Notification sweep: TelegramNotifier.check_and_notify_expiring_certs *)

\* the notification types, in the order the sweep handles them
NotificationTypes == <<"cert_expired", "cert_expiring_7d", "cert_expiring_30d">>

\* faulty variant: the tier limits taken as strict
ClassifyStrict(days, threshold) ==
    IF days < 0 THEN "cert_expired"
    ELSE IF days < CriticalDays THEN "cert_expiring_7d"
    ELSE IF days < threshold THEN "cert_expiring_30d"
    ELSE "none"

\* the if/elif chain that groups a check by its days_remaining
Classify(days, threshold) ==
    IF days <= 0 THEN "cert_expired"
    ELSE IF days <= CriticalDays THEN "cert_expiring_7d"
    ELSE IF days <= threshold THEN "cert_expiring_30d"
    ELSE "none"

\* faulty variant: the join without the filter on is_active
latest_checks_of_all(table, history) ==
    LET Successes(id) == {i \in 1..Len(history) :
                            /\ history[i].node_id = id
                            /\ history[i].check_status = "success"}
        Latest(id) == CHOOSE i \in Successes(id) :
                          \A j \in Successes(id) : j <= i
    IN [id \in {n \in DOMAIN table : Successes(n) # {}} |->
            history[Latest(id)]]

\* The join of active nodes with their successful checks, newest first,
\* keeping the first row met for each node: node id -> its check.
node_latest_checks(table, history) ==
    LET Successes(id) == {i \in 1..Len(history) :
                            /\ history[i].node_id = id
                            /\ history[i].check_status = "success"}
        Latest(id) == CHOOSE i \in Successes(id) :
                          \A j \in Successes(id) : j <= i
    IN [id \in {n \in ActiveNodes(table) : Successes(n) # {}} |->
            history[Latest(id)]]

\* faulty variant: the day count of a check counted down by the days that
\* passed since the check
TiersAged(table, history) ==
    LET latest == node_latest_checks(table, history)
    IN [type \in Range(NotificationTypes) |->
            {id \in DOMAIN latest :
                Classify(latest[id].days_remaining - (day - latest[id].checked_at),
                         CERT_WARNING_DAYS) = type}]

\* the three lists expired, expiring_very_soon, expiring_soon
Tiers(table, history) ==
    LET latest == node_latest_checks(table, history)
    IN [type \in Range(NotificationTypes) |->
            {id \in DOMAIN latest :
                Classify(latest[id].days_remaining, CERT_WARNING_DAYS) = type}]

TelegramNotification(node_id, notification_type, notification_date) ==
    [node_id |-> node_id, notification_type |-> notification_type,
     notification_date |-> notification_date]

\* faulty variant: a filter that looks for a record of any tier
ExistingAnyTier(table, node_id, notification_type, today_str) ==
    {row \in BagToSet(table) :
        row.node_id = node_id /\ row.notification_date = today_str}

\* the rows the query on (node_id, notification_type, notification_date) finds
ExistingNotification(table, node_id, notification_type, today_str) ==
    {row \in BagToSet(table) :
        row = TelegramNotification(node_id, notification_type, today_str)}

\* faulty variant: a filter that keeps every node
NotExistingAlways(existing) == TRUE

\* "if not existing: to_notify.append((node, check))"
NotExisting(existing) == existing = {}

\* faulty variant: rows recorded whatever send_message returned
RecordAlways(sent) == TRUE

\* "if sent:" before the rows are added and committed
RecordIfSent(sent) == sent

\* one TelegramNotification per node of to_notify
NotificationRows(to_notify, notification_type, today_str) ==
    {TelegramNotification(node_id, notification_type, today_str) :
        node_id \in to_notify}

\* faulty variant: a table without the unique constraint
NoUniqueConstraint(table, rows) == FALSE

\* UniqueConstraint('node_id', 'notification_type', 'notification_date'):
\* the INSERT of a key the table holds raises IntegrityError
UniqueViolation(table, rows) ==
    \E row \in rows : BagIn(row, table)

\* db.commit() of _send_cert_notifications: all rows of the batch are
\* stored, or the commit raises and none is.
RecordCommitOutcomes(table, rows) ==
    LET rolled_back == [ok |-> FALSE, notifications |-> table]
        committed == [ok |-> TRUE, notifications |-> table (+) SetToBag(rows)]
    IN IF UniqueViolation(table, rows) THEN {rolled_back}
       ELSE {committed, rolled_back}

\* The position of the sweep after the tier numbered `tier`: the next tier
\* whose list is not empty, or the end of the sweep.
RECURSIVE NextTier(_, _)
NextTier(tiers, tier) ==
    IF tier >= Len(NotificationTypes) THEN 0
    ELSE IF tiers[NotificationTypes[tier + 1]] # {} THEN tier + 1
    ELSE NextTier(tiers, tier + 1)

\* the locals and the suspension point of a sweep that moves past `tier`
Advance(p, l, tier) ==
    LET next == NextTier(l.tiers, tier)
    IN IF next = 0
       THEN /\ pc' = [pc EXCEPT ![p] = "idle"]
            /\ loc' = [loc EXCEPT ![p] = Returned(l)]
       ELSE /\ pc' = [pc EXCEPT ![p] = "sweep_filter"]
            /\ loc' = [loc EXCEPT ![p] =
                         [l EXCEPT !.tier = next,
                                   !.pending = SeqOf(l.tiers[NotificationTypes[next]]),
                                   !.to_notify = {}]]

\* check_certificates up to "await db.execute(select(TransportNode)...)"
BeginCheck(p) ==
    /\ MayStart(p, "check")
    /\ loc' = [loc EXCEPT ![p] = [NoLocals EXCEPT !.job = "check"]]
    /\ pc' = [pc EXCEPT ![p] = "check_read"]
    /\ UNCHANGED <<nodes, events, checks, notifications, delivered, day, bot,
                   lastSync, cls, unit>>

\* a run of check_certificates the scheduler's timer starts
StartCheck(p) ==
    /\ SchedulerMayFire
    /\ started.check < MaxChecks
    /\ started' = [started EXCEPT !.check = @ + 1]
    /\ BeginCheck(p)
    /\ UNCHANGED life

\* POST /api/trigger/cert-check: asyncio.create_task(check_certificates())
TriggerCheck(p) ==
    /\ life.phase = "serving"
    /\ started.trigger < MaxTriggers
    /\ started' = [started EXCEPT !.trigger = @ + 1]
    /\ BeginCheck(p)
    /\ UNCHANGED life

\* the active nodes are read; without any the cycle returns, else it awaits
\* check_multiple_certificates
CheckRead(p) ==
    /\ pc[p] = "check_read"
    /\ IF ActiveNodes(nodes) = {}
       THEN /\ pc' = [pc EXCEPT ![p] = "idle"]
            /\ loc' = [loc EXCEPT ![p] =
                         Returned([loc[p] EXCEPT !.outcome = "skipped"])]
       ELSE /\ pc' = [pc EXCEPT ![p] = "check_probe"]
            /\ loc' = [loc EXCEPT ![p].hosts = ActiveNodes(nodes)]
    /\ UNCHANGED <<nodes, events, checks, notifications, delivered, day, bot,
                   started, lastSync, cls, unit, life>>

\* check_multiple_certificates returns one result per host, the rows are
\* built and added (a result without its expiry key raises) and
\* "await db.commit()" stores them or raises; after a commit the cycle calls
\* check_and_notify_expiring_certs, which returns without a bot.
CheckCommit(p, check_results) ==
    /\ pc[p] = "check_probe"
    /\ DOMAIN check_results = loc[p].hosts
    /\ \E ok \in IF \A id \in loc[p].hosts : HasExpiryKey(check_results[id])
                 THEN BOOLEAN ELSE {FALSE} :
         IF ok
         THEN /\ checks' = AppendRows(checks,
                                  Inserted(CheckRecords(SeqOf(loc[p].hosts),
                                                        check_results), day))
              /\ IF bot
                 THEN /\ pc' = [pc EXCEPT ![p] = "sweep_query"]
                      /\ loc' = [loc EXCEPT ![p].outcome = "committed"]
                 ELSE /\ pc' = [pc EXCEPT ![p] = "idle"]
                      /\ loc' = [loc EXCEPT ![p] =
                                   Returned([loc[p] EXCEPT !.outcome = "committed"])]
         ELSE /\ checks' = checks
              /\ pc' = [pc EXCEPT ![p] = Logged]
              /\ loc' = [loc EXCEPT ![p] =
                           Returned([loc[p] EXCEPT !.outcome = "rolled_back"])]
    /\ UNCHANGED <<nodes, events, notifications, delivered, day, bot,
                   started, lastSync, cls, unit, life>>

\* send_expiry_notifications (the timer job) up to the query of
\* check_and_notify_expiring_certs, which returns without a bot
BeginSweep(p) ==
    /\ MayStart(p, "sweep")
    /\ LET l == [NoLocals EXCEPT !.job = "sweep"]
       IN IF bot
          THEN /\ pc' = [pc EXCEPT ![p] = "sweep_query"]
               /\ loc' = [loc EXCEPT ![p] = l]
          ELSE /\ pc' = [pc EXCEPT ![p] = "idle"]
               /\ loc' = [loc EXCEPT ![p] =
                            Returned([l EXCEPT !.outcome = "skipped"])]
    /\ UNCHANGED <<nodes, events, checks, notifications, delivered, day, bot,
                   lastSync, cls, unit, life>>

\* a run of send_expiry_notifications the scheduler's timer starts
StartSweep(p) ==
    /\ SchedulerMayFire
    /\ started.sweep < MaxSweeps
    /\ started' = [started EXCEPT !.sweep = @ + 1]
    /\ BeginSweep(p)

\* every node of every tier already has its record for the date
AllRecorded(tiers, table, today_str) ==
    /\ \E type \in DOMAIN tiers : tiers[type] # {}
    /\ \A type \in DOMAIN tiers : \A id \in tiers[type] :
         ExistingNotification(table, id, type, today_str) # {}

\* "await db.execute(query)": the latest successful check of each active
\* node is grouped into the tiers and today_str is taken
SweepQuery(p) ==
    /\ pc[p] = "sweep_query"
    /\ LET tiers == Tiers(nodes, checks)
           l == [loc[p] EXCEPT !.tiers = tiers, !.today_str = day,
                               !.note = IF AllRecorded(tiers, notifications, day)
                                        THEN "quiet" ELSE "none"]
       IN Advance(p, l, 0)
    /\ UNCHANGED <<nodes, events, checks, notifications, delivered, day, bot,
                   started, lastSync, cls, unit, life>>

\* one "await db.execute(query)" of the filter loop: the record of the next
\* node of the tier is looked up
SweepFilter(p) ==
    /\ pc[p] = "sweep_filter"
    /\ LET node_id == Head(loc[p].pending)
           type == NotificationTypes[loc[p].tier]
           existing == ExistingNotification(notifications, node_id, type,
                                            loc[p].today_str)
           to_notify == IF NotExisting(existing)
                        THEN loc[p].to_notify \cup {node_id}
                        ELSE loc[p].to_notify
           l == [loc[p] EXCEPT !.pending = Tail(@), !.to_notify = to_notify]
       IN IF l.pending # <<>>
          THEN /\ pc' = pc
               /\ loc' = [loc EXCEPT ![p] = l]
          ELSE IF to_notify = {}
          THEN Advance(p, l, l.tier)
          ELSE /\ pc' = [pc EXCEPT ![p] = "sweep_send"]
               /\ loc' = [loc EXCEPT ![p] = l]
    /\ UNCHANGED <<nodes, events, checks, notifications, delivered, day, bot,
                   started, lastSync, cls, unit, life>>

\* "sent = await self.send_message(message)"
SendTier(p) ==
    /\ pc[p] = "sweep_send"
    /\ \E sent \in SendOutcomes :
         LET l == [loc[p] EXCEPT !.sent = sent,
                                 !.note = IF sent THEN @ ELSE "send_failed"]
         IN /\ delivered' =
                 IF sent
                 THEN delivered (+) SetToBag(
                          {Message(NotificationTypes[l.tier], l.to_notify, day)})
                 ELSE delivered
            /\ IF RecordIfSent(sent)
               THEN /\ pc' = [pc EXCEPT ![p] = "sweep_record"]
                    /\ loc' = [loc EXCEPT ![p] = l]
               ELSE Advance(p, l, l.tier)
    /\ UNCHANGED <<nodes, events, checks, notifications, day, bot,
                   started, lastSync, cls, life>>

\* the send step of a sweep
SweepSend(p) ==
    /\ SendTier(p)
    /\ UNCHANGED unit

\* the rows of to_notify are added and "await db.commit()" stores them or
\* raises; the exception leaves check_and_notify_expiring_certs and is
\* logged by the job
RecordTier(p) ==
    /\ pc[p] = "sweep_record"
    /\ LET rows == NotificationRows(loc[p].to_notify,
                                    NotificationTypes[loc[p].tier],
                                    loc[p].today_str)
       IN \E out \in RecordCommitOutcomes(notifications, rows) :
            /\ notifications' = out.notifications
            /\ IF out.ok
               THEN Advance(p, loc[p], loc[p].tier)
               ELSE /\ pc' = [pc EXCEPT ![p] = Logged]
                    /\ loc' = [loc EXCEPT ![p] =
                                 Returned([loc[p] EXCEPT !.outcome = "rolled_back"])]
    /\ UNCHANGED <<nodes, events, checks, delivered, day, bot,
                   started, lastSync, cls, life>>

\* the record step of a sweep
SweepRecord(p) ==
    /\ RecordTier(p)
    /\ UNCHANGED unit

\* midnight
DayTick ==
    /\ day < MaxDay
    /\ day' = day + 1
    /\ UNCHANGED <<nodes, events, checks, notifications, delivered, bot,
                   pc, loc, started, lastSync, cls, unit, life>>

-----------------------------------------------------------------------------
(* Inventory synchronisation on a fresh database *)

InitSync ==
    /\ nodes = <<>>
    /\ events = <<>>
    /\ checks = <<>>
    /\ notifications = EmptyBag
    /\ delivered = EmptyBag
    /\ day = 1
    /\ bot \in BOOLEAN
    /\ pc = [p \in Tasks |-> "idle"]
    /\ loc = [p \in Tasks |-> NoLocals]
    /\ started = NoneStarted
    /\ lastSync = <<>>
    /\ life = Serving
    /\ cls = [days |-> 0, threshold |-> 0, tier |-> "unset"]
    /\ unit = NoUnit

NextSync ==
    \/ \E p \in Tasks, response \in Responses : StartSync(p, response)
    \/ \E p \in Tasks : SyncRead(p)
    \/ \E p \in Tasks : SyncCommit(p)
    \/ \E p \in Tasks : SyncNotifyNew(p)
    \/ \E p \in Tasks : SyncNotifyRemoved(p)

SpecSync == InitSync /\ [][NextSync]_vars

-----------------------------------------------------------------------------
(* Certificate checks and sweeps over a synchronised inventory *)

\* The database after the inventory was synchronised: every node was
\* discovered, and the nodes outside `present` were then found gone.
SyncedNodes(present) ==
    LET all == [id \in NodeIds |-> InventoryRecord(id, 1)]
        first == NodesAfterSync(<<>>, all, <<>>)
    IN NodesAfterSync(first, [id \in present |-> all[id]], first)

SyncedEvents(present) ==
    LET all == [id \in NodeIds |-> InventoryRecord(id, 1)]
        first == NodesAfterSync(<<>>, all, <<>>)
    IN SyncEvents(all, <<>>) \o SyncEvents([id \in present |-> all[id]], first)

InitNotify ==
    /\ \E present \in {1..k : k \in NodeIds} :
         /\ nodes = SyncedNodes(present)
         /\ events = SyncedEvents(present)
    /\ checks = <<>>
    /\ notifications = EmptyBag
    /\ delivered = EmptyBag
    /\ day = 1
    /\ bot \in BOOLEAN
    /\ pc = [p \in Tasks |-> "idle"]
    /\ loc = [p \in Tasks |-> NoLocals]
    /\ started = NoneStarted
    /\ lastSync = <<>>
    /\ life = Serving
    /\ cls = [days |-> 0, threshold |-> 0, tier |-> "unset"]
    /\ unit = NoUnit

NextNotify ==
    \/ \E p \in Tasks : StartCheck(p)
    \/ \E p \in Tasks : CheckRead(p)
    \/ \E p \in Tasks :
         \E check_results \in [loc[p].hosts -> ProbeOutcomes] :
             CheckCommit(p, check_results)
    \/ \E p \in Tasks : StartSweep(p)
    \/ \E p \in Tasks : SweepQuery(p)
    \/ \E p \in Tasks : SweepFilter(p)
    \/ \E p \in Tasks : SweepSend(p)
    \/ \E p \in Tasks : SweepRecord(p)
    \/ DayTick

SpecNotify == InitNotify /\ [][NextNotify]_vars

-----------------------------------------------------------------------------
(* Severity classification of every day count under every threshold *)

\* the classification of the chosen day count is computed
ClassifyStep ==
    /\ cls.tier = "unset"
    /\ cls' = [cls EXCEPT !.tier = Classify(cls.days, cls.threshold)]
    /\ UNCHANGED <<nodes, events, checks, notifications, delivered, day, bot,
                   pc, loc, started, lastSync, unit, life>>

InitClassify ==
    /\ nodes = <<>>
    /\ events = <<>>
    /\ checks = <<>>
    /\ notifications = EmptyBag
    /\ delivered = EmptyBag
    /\ day = 1
    /\ bot = TRUE
    /\ pc = [p \in Tasks |-> "idle"]
    /\ loc = [p \in Tasks |-> NoLocals]
    /\ started = NoneStarted
    /\ lastSync = <<>>
    /\ life = Serving
    /\ cls \in [days : (0 - MaxDays)..MaxDays, threshold : 0..MaxThreshold,
                tier : {"unset"}]
    /\ unit = NoUnit

NextClassify == ClassifyStep

SpecClassify == InitClassify /\ [][NextClassify]_vars

-----------------------------------------------------------------------------
(* Properties of the reconciliation *)

EventsOf(log, node_id) == SelectSeq(log, LAMBDA e : e.node_id = node_id)

\* the events a step appends to node_events
Appended(before, after) == SubSeq(after, Len(before) + 1, Len(after))

\* C1: a reconciliation run whose snapshot is the snapshot of the latest
\* committed run, and which reads the persisted nodes as that run left
\* them, adds no NodeEvent row.
C1_SecondRunAddsNoEvent ==
    [][\A p \in Tasks :
         (/\ pc[p] = "sync_commit"
          /\ pc'[p] # "sync_commit"
          /\ loc[p].nsx_nodes = lastSync
          /\ loc[p].existing_nodes = nodes)
         => events' = events]_vars

\* C2: a run that commits snapshot S against the persisted set P writes
\* exactly: one 'added' event and an active row for each id of S not in P;
\* one 'reappeared' event for each id of both that was inactive, which
\* becomes active; no event for each id of both that was active, whose name,
\* address and maintenance flag become the snapshot's; one 'removed' event
\* for each id of P not in S, which becomes inactive; and no other event.
C2_OneRunWritesTheDiff ==
    [][\A p \in Tasks :
         (/\ pc[p] = "sync_commit"
          /\ loc'[p].outcome = "committed"
          /\ loc[p].existing_nodes = nodes)
         =>
         LET S == loc[p].nsx_nodes
             P == loc[p].existing_nodes
             new == Appended(events, events')
             Types(id) == LET es == EventsOf(new, id)
                          IN [i \in 1..Len(es) |-> es[i].event_type]
         IN /\ SubSeq(events', 1, Len(events)) = events
            /\ DOMAIN nodes' = DOMAIN P \cup DOMAIN S
            /\ \A id \in DOMAIN S \ DOMAIN P :
                 /\ Types(id) = <<"added">>
                 /\ nodes'[id].is_active
            /\ \A id \in DOMAIN S \cap DOMAIN P :
                 IF P[id].is_active
                 THEN /\ Types(id) = <<>>
                      /\ nodes'[id].display_name = S[id].display_name
                      /\ nodes'[id].ip_address = S[id].ip_address
                      /\ nodes'[id].maintenance_mode = S[id].maintenance_mode
                      /\ nodes'[id].is_active
                 ELSE /\ Types(id) = <<"reappeared">>
                      /\ nodes'[id].is_active
            /\ \A id \in DOMAIN P \ DOMAIN S :
                 /\ Types(id) = <<"removed">>
                 /\ ~nodes'[id].is_active
            /\ \A i \in 1..Len(new) : new[i].node_id \in DOMAIN P \cup DOMAIN S
    ]_vars

\* C2 witness: a run has committed that found a node back and another gone.
C2_Witness ==
    /\ \E p \in Tasks : loc[p].outcome = "committed"
    /\ \E i \in 1..Len(events) : events[i].event_type = "reappeared"
    /\ \E i \in 1..Len(events) : events[i].event_type = "removed"
    /\ \E id \in DOMAIN nodes : ~nodes[id].is_active

\* C3: the node table and the event log change only together, by the whole
\* batch of one run, and a run whose commit fails leaves both as they are.
C3_AllOrNothing ==
    [][/\ (nodes' # nodes \/ events' # events) =>
            \E p \in Tasks :
                /\ pc[p] = "sync_commit"
                /\ loc'[p].outcome = "committed"
                /\ nodes' = NodesAfterSync(nodes, loc[p].nsx_nodes,
                                           loc[p].existing_nodes)
                /\ events' = events \o SyncEvents(loc[p].nsx_nodes,
                                                 loc[p].existing_nodes)
       /\ \A p \in Tasks :
            (pc[p] = "sync_commit" /\ loc'[p].outcome = "rolled_back")
            => (nodes' = nodes /\ events' = events /\ pc'[p] = "idle")
    ]_vars

\* C3 witness: a commit has failed while nodes were persisted.
C3_Witness ==
    /\ \E p \in Tasks : pc[p] = "idle" /\ loc[p].outcome = "rolled_back"
    /\ nodes # <<>>

\* C4: a sync cycle whose inventory fetch failed returns at once: it changes
\* no persisted node and writes no event.
C4_FailedFetchChangesNothing ==
    [][\A p \in Tasks :
         (/\ pc[p] = "idle"
          /\ started'.sync = started.sync + 1
          /\ loc'[p].job = "sync"
          /\ ~loc'[p].fetch_ok)
         => (pc'[p] = "idle" /\ nodes' = nodes /\ events' = events)]_vars

\* C4 witness: a cycle with a failed fetch has returned while active nodes
\* are persisted.
C4_Witness ==
    /\ \E p \in Tasks : /\ pc[p] = "idle" /\ loc[p].job = "sync"
                        /\ ~loc[p].fetch_ok /\ loc[p].outcome = "skipped"
    /\ \E id \in DOMAIN nodes : nodes[id].is_active

\* C5: a failed fetch leaves the cycle without reconciliation, and a fetch
\* that succeeds, be it with zero nodes, is reconciled.
C5_EmptyFleetIsReconciled ==
    [][\A p \in Tasks :
         (/\ pc[p] = "idle"
          /\ started'.sync = started.sync + 1
          /\ loc'[p].job = "sync"
          /\ loc'[p] # loc[p])
         => IF loc'[p].fetch_ok THEN pc'[p] = "sync_read"
            ELSE pc'[p] = "idle"]_vars

-----------------------------------------------------------------------------
(* Properties of the notification sweep *)

\* the delivered certificate messages of a type and day that cover a node
Covering(node_id, type, date) ==
    {m \in BagToSet(delivered) :
        m.type = type /\ m.day = date /\ node_id \in m.nodes}

\* the rows a task at "sweep_record" is about to insert
PendingRows(p) ==
    NotificationRows(loc[p].to_notify, NotificationTypes[loc[p].tier],
                     loc[p].today_str)

\* C6: in every reachable state the table holds at most one
\* NotificationRecord for each (node id, tier, day).
C6_OneRecordPerKey ==
    \A row \in BagToSet(notifications) : CopiesIn(row, notifications) = 1

\* C6 witness: a task is about to insert a key that another task has
\* recorded in the meantime.
C6_Witness ==
    \E p \in Tasks :
        /\ pc[p] = "sweep_record"
        /\ \E row \in PendingRows(p) : BagIn(row, notifications)

\* C7: for every (node, tier, day) at most one message covering the node in
\* that tier was delivered on that day.
C7_OneDeliveryPerKey ==
    \A node_id \in NodeIds, type \in Range(NotificationTypes), date \in Days :
        \A m1, m2 \in Covering(node_id, type, date) :
            m1 = m2 /\ CopiesIn(m1, delivered) = 1

\* C8: a sweep that finds, when it queries the check results, a record of
\* today for every node of every tier sends no message and writes no
\* record: it never waits for a delivery or for a record commit.
C8_SecondSweepIsQuiet ==
    \A p \in Tasks :
        loc[p].note = "quiet" => pc[p] \notin {"sweep_send", "sweep_record"}

\* C8 witness: after a delivery, a sweep that found every node of its tiers
\* recorded has returned.
C8_Witness ==
    /\ delivered # EmptyBag
    /\ \E p \in Tasks : pc[p] = "idle" /\ loc[p].note = "quiet"

\* C9: a task whose delivery failed writes no record of that batch, and the
\* table changes only by the rows of a batch that was delivered.
C9_NoRecordWithoutDelivery ==
    [][/\ \A p \in Tasks :
            (pc[p] = "sweep_send" /\ pc'[p] # "sweep_send"
             /\ delivered' = delivered)
            => (pc'[p] # "sweep_record" /\ notifications' = notifications)
       /\ notifications' # notifications =>
            \E p \in Tasks :
                /\ pc[p] = "sweep_record"
                /\ loc[p].sent
                /\ notifications' = notifications (+) SetToBag(PendingRows(p))
    ]_vars

\* C9 witness: a sweep whose delivery failed has returned and no record
\* exists.
C9_Witness ==
    /\ notifications = EmptyBag
    /\ \E p \in Tasks : pc[p] = "idle" /\ loc[p].note = "send_failed"

-----------------------------------------------------------------------------
(* Properties of the job runs *)

\* C12: no two tasks run the same job at the same time.
C12_OneInstancePerJob ==
    \A p, q \in Tasks :
        (p # q /\ pc[p] # "idle" /\ pc[q] # "idle") => loc[p].job # loc[q].job

\* no coroutine is suspended
Quiescent == \A p \in Tasks : pc[p] = "idle"

\* the number of events of a type logged for a node
EventCount(event_type, node_id) ==
    Len(SelectSeq(events, LAMBDA e : e.event_type = event_type
                                      /\ e.node_id = node_id))

RECURSIVE Copies(_)
\* the number of delivered messages among the distinct messages `ms`
Copies(ms) ==
    IF ms = {} THEN 0
    ELSE LET m == CHOOSE x \in ms : TRUE
         IN CopiesIn(m, delivered) + Copies(ms \ {m})

\* the number of delivered lifecycle messages of a type that cover a node
Deliveries(type, node_id) ==
    Copies({m \in BagToSet(delivered) : m.type = type /\ node_id \in m.nodes})

\* C20: with a configured bot, once every cycle has returned, each 'added'
\* and each 'removed' event is covered by exactly one delivered lifecycle
\* message: per node, as many deliveries as events.
C20_EveryEventNotifiedOnce ==
    (bot /\ Quiescent) =>
        \A node_id \in NodeIds :
            /\ Deliveries("new_nodes", node_id) = EventCount("added", node_id)
            /\ Deliveries("removed_nodes", node_id) = EventCount("removed", node_id)

-----------------------------------------------------------------------------
(* A check cycle and sweeps over a database that holds an earlier cycle *)

\* the records a sweep writes when every tier is delivered and recorded
EarlierRows(tiers, today_str) ==
    UNION {NotificationRows(tiers[type], type, today_str) : type \in DOMAIN tiers}

\* the messages of that sweep, one per tier that is not empty
EarlierMessages(tiers, date) ==
    {Message(type, tiers[type], date) :
        type \in {t \in DOMAIN tiers : tiers[t] # {}}}

\* The database after the inventory was synchronised and one check cycle
\* over the active nodes was stored; the sweep of that cycle delivered and
\* recorded every tier, or delivered nothing. Runs are counted from here.
InitRecheck ==
    /\ \E present \in {1..k : k \in NodeIds} :
         /\ nodes = SyncedNodes(present)
         /\ events = SyncedEvents(present)
         /\ \E check_results \in [present -> ProbeOutcomes], swept \in BOOLEAN :
              /\ checks = Inserted(CheckRecords(SeqOf(present), check_results), 1)
              /\ LET tiers == Tiers(nodes, checks)
                 IN /\ notifications =
                         IF swept THEN SetToBag(EarlierRows(tiers, 1)) ELSE EmptyBag
                    /\ delivered =
                         IF swept THEN SetToBag(EarlierMessages(tiers, 1)) ELSE EmptyBag
    /\ day = 1
    /\ bot = TRUE
    /\ pc = [p \in Tasks |-> "idle"]
    /\ loc = [p \in Tasks |-> NoLocals]
    /\ started = NoneStarted
    /\ lastSync = <<>>
    /\ life = Serving
    /\ cls = [days |-> 0, threshold |-> 0, tier |-> "unset"]
    /\ unit = NoUnit

\* one more check cycle with the sweep at its end; midnight may pass
NextRecheck ==
    \/ \E p \in Tasks : StartCheck(p)
    \/ \E p \in Tasks : CheckRead(p)
    \/ \E p \in Tasks :
         \E check_results \in [loc[p].hosts -> ProbeOutcomes] :
             CheckCommit(p, check_results)
    \/ \E p \in Tasks : SweepQuery(p)
    \/ \E p \in Tasks : SweepFilter(p)
    \/ \E p \in Tasks : SweepSend(p)
    \/ \E p \in Tasks : SweepRecord(p)
    \/ DayTick

SpecRecheck == InitRecheck /\ [][NextRecheck]_vars

-----------------------------------------------------------------------------
(* Properties of the tiers *)

\* the positions of a node's checks in the history
ChecksOf(history, node_id) ==
    {i \in 1..Len(history) : history[i].node_id = node_id}

\* the most recent check of a node
LastCheck(history, node_id) ==
    history[CHOOSE i \in ChecksOf(history, node_id) :
                \A j \in ChecksOf(history, node_id) : j <= i]

\* C11: when a sweep groups the checks, every node it places in a tier has
\* a check, and its most recent check is a success.
C11_FailedLatestIsExcluded ==
    [][\A p \in Tasks :
         (pc[p] = "sweep_query" /\ pc'[p] # "sweep_query")
         => \A type \in DOMAIN loc'[p].tiers : \A id \in loc'[p].tiers[type] :
              /\ ChecksOf(checks, id) # {}
              /\ LastCheck(checks, id).check_status = "success"]_vars

\* C13: a node of a tier is kept for notification exactly when no record of
\* its own (node, tier, today) key exists, whatever records of other tiers
\* exist for it today; and a record commit that succeeds stores the new key.
C13_TiersAreIndependentKeys ==
    [][\A p \in Tasks :
         /\ (pc[p] = "sweep_filter" /\ loc'[p] # loc[p])
            => LET node_id == Head(loc[p].pending)
                   key == TelegramNotification(node_id,
                                               NotificationTypes[loc[p].tier],
                                               loc[p].today_str)
               IN IF BagIn(key, notifications)
                  THEN node_id \notin loc'[p].to_notify
                  ELSE /\ node_id \in loc'[p].to_notify
                       /\ pc'[p] \in {"sweep_filter", "sweep_send"}
         /\ (pc[p] = "sweep_record" /\ pc'[p] # "sweep_record"
             /\ loc'[p].outcome # "rolled_back")
            => \A row \in PendingRows(p) : BagIn(row, notifications')
    ]_vars

\* C13 witness: a node recorded today as warning was, after a later check,
\* notified and recorded today in a more severe tier.
C13_Witness ==
    \E node_id \in NodeIds, date \in Days :
        \E type \in {"cert_expired", "cert_expiring_7d"} :
            /\ BagIn(TelegramNotification(node_id, "cert_expiring_30d", date),
                     notifications)
            /\ BagIn(TelegramNotification(node_id, type, date), notifications)
            /\ Covering(node_id, "cert_expiring_30d", date) # {}
            /\ Covering(node_id, type, date) # {}
            /\ Classify(checks[1].days_remaining, CERT_WARNING_DAYS)
                 = "cert_expiring_30d"
            /\ checks[1].node_id = node_id
            /\ Classify(LastCheck(checks, node_id).days_remaining,
                        CERT_WARNING_DAYS) = type

-----------------------------------------------------------------------------
(* One probe: CertificateChecker.check_certificate *)

\* The exceptions a probe meets, each with the classes the except clauses
\* test (asyncssh's process timeout derives from asyncssh.Error and from
\* asyncio.TimeoutError; a refused connection is an OSError) and with what
\* went wrong on the wire.
PermissionDenied ==
    [name |-> "asyncssh.PermissionDenied",
     classes |-> {"asyncssh.Error", "Exception"}, cause |-> "authentication"]
ConnectionLost ==
    [name |-> "asyncssh.ConnectionLost",
     classes |-> {"asyncssh.Error", "Exception"}, cause |-> "transport"]
ConnectTimeout ==
    [name |-> "asyncio.TimeoutError",
     classes |-> {"asyncio.TimeoutError", "Exception"}, cause |-> "time_bound"]
ProcessTimeout ==
    [name |-> "asyncssh.TimeoutError",
     classes |-> {"asyncssh.Error", "asyncio.TimeoutError", "Exception"},
     cause |-> "time_bound"]
ConnectionRefused ==
    [name |-> "ConnectionRefusedError",
     classes |-> {"OSError", "Exception"}, cause |-> "transport"]
NoException == [name |-> "none", classes |-> {}, cause |-> "none"]

\* raised by "asyncssh.connect(...)" and by "conn.run(..., timeout=10)"
ConnectExceptions ==
    {PermissionDenied, ConnectionLost, ConnectTimeout, ConnectionRefused}
RunExceptions == {ProcessTimeout, ConnectionLost}

Span == (0 - MaxSpan)..MaxSpan
Nows == {0, 1}

\* What the command prints: an optional "notAfter=" prefix, a date text that
\* matches '%b %d %H:%M:%S %Y' (held as the instant it denotes, in ticks) or
\* does not (None), and what follows the date.
Outputs ==
    [prefix : {"notAfter=", ""},
     text : {Some(t) : t \in Span} \cup {None},
     suffix : {" GMT", " UTC", ""}]

\* What one probe meets: an exception while connecting or while the command
\* runs, or a completed command with its exit status and output; and the
\* clock at the time of the check.
ProbeEnvs ==
    [at : {"connect"}, raised : ConnectExceptions, exit_status : {0},
     stdout : {[prefix |-> "", text |-> None, suffix |-> ""]}, now : {0}]
    \cup
    [at : {"run"}, raised : RunExceptions, exit_status : {0},
     stdout : {[prefix |-> "", text |-> None, suffix |-> ""]}, now : {0}]
    \cup
    [at : {"none"}, raised : {NoException}, exit_status : {0, 1},
     stdout : Outputs, now : Nows]

\* CertificateChecker._parse_cert_date: the prefix and a trailing " GMT" are
\* cut off and the rest is parsed; anything left over makes strptime raise,
\* and None is returned.
parse_cert_date(openssl_output) ==
    IF openssl_output.text = None \/ openssl_output.suffix \notin {" GMT", ""}
    THEN None
    ELSE openssl_output.text

\* faulty variant: the day count rounded toward zero
truncated_days(ticks) ==
    IF ticks >= 0 THEN ticks \div TicksPerDay
    ELSE 0 - ((0 - ticks) \div TicksPerDay)

\* timedelta.days of a normalised timedelta (0 <= seconds < one day, the
\* days negative for a negative duration)
timedelta_days(ticks) == (ticks - (ticks % TicksPerDay)) \div TicksPerDay

\* faulty variant: a handler that lets the exception through
ExceptReraise(classes) == "raised"

\* the status set by the first except clause that matches
ExceptStatus(classes) ==
    IF "asyncssh.Error" \in classes THEN "ssh_failed"
    ELSE IF "asyncio.TimeoutError" \in classes THEN "timeout"
    ELSE "error"

\* the error_message set by that clause
ExceptMessage(classes) ==
    IF "asyncssh.Error" \in classes THEN "SSH connection error: "
    ELSE IF "asyncio.TimeoutError" \in classes THEN "Connection timeout after "
    ELSE "Unexpected error: "

check_certificate(host, node_id, env) ==
    LET result == [node_id |-> node_id, host |-> host, status |-> "error",
                   cert_expiry_date |-> None, days_remaining |-> None,
                   error_message |-> None]
        expiry_date == parse_cert_date(env.stdout)
    IN IF env.raised # NoException
       THEN [result EXCEPT !.status = ExceptStatus(env.raised.classes),
                           !.error_message =
                               Some(ExceptMessage(env.raised.classes))]
       ELSE IF env.exit_status # 0
       THEN [result EXCEPT !.status = "error",
                           !.error_message = Some("Command failed: ")]
       ELSE IF expiry_date # None
       THEN LET time_remaining == expiry_date[1] - env.now
            IN [result EXCEPT !.status = "success",
                              !.cert_expiry_date = expiry_date,
                              !.days_remaining =
                                  Some(timedelta_days(time_remaining))]
       ELSE [result EXCEPT !.status = "error",
                           !.error_message = Some("Failed to parse date from: ")]

\* the tier the sweep gives the check stored for a result
TierOf(result) ==
    IF result.status = "success"
    THEN Classify(CertificateCheck(result.node_id, result).days_remaining,
                  CERT_WARNING_DAYS)
    ELSE "none"

\* the probe meets its environment and returns its result
ProbeStep ==
    /\ unit.kind = "probe"
    /\ ~unit.done
    /\ LET result == check_certificate(<<"ip", 1>>, 1, unit.env)
       IN unit' = [unit EXCEPT !.done = TRUE, !.result = result,
                               !.tier = TierOf(result)]
    /\ UNCHANGED <<nodes, events, checks, notifications, delivered, day, bot,
                   pc, loc, started, lastSync, cls, life>>

InitProbe ==
    /\ nodes = <<>>
    /\ events = <<>>
    /\ checks = <<>>
    /\ notifications = EmptyBag
    /\ delivered = EmptyBag
    /\ day = 1
    /\ bot = TRUE
    /\ pc = [p \in Tasks |-> "idle"]
    /\ loc = [p \in Tasks |-> NoLocals]
    /\ started = NoneStarted
    /\ lastSync = <<>>
    /\ life = Serving
    /\ cls = [days |-> 0, threshold |-> 0, tier |-> "unset"]
    /\ \E env \in ProbeEnvs :
         unit = [kind |-> "probe", env |-> env, done |-> FALSE,
                 result |-> [status |-> "pending"], tier |-> "none"]

NextProbe == ProbeStep

SpecProbe == InitProbe /\ [][NextProbe]_vars

-----------------------------------------------------------------------------
(* Properties of one probe *)

\* the probe under test has returned
Probed == unit.kind = "probe" /\ unit.done

\* C16: every outcome of check_certificate is a result with one of the four
\* statuses; a result that is not a success has an error detail and no
\* expiry; a success has an expiry and a day count.
C16_TypedResult ==
    Probed =>
        LET r == unit.result
        IN /\ r.status \in {"success", "error", "ssh_failed", "timeout"}
           /\ r.status # "success" =>
                /\ r.error_message # None
                /\ r.error_message[1] # ""
                /\ r.cert_expiry_date = None
           /\ r.status = "success" =>
                /\ r.cert_expiry_date # None
                /\ r.days_remaining # None
                /\ r.days_remaining[1] \in Int

\* C16 witness: a probe whose connection was refused has returned a result.
C16_Witness ==
    /\ Probed
    /\ unit.env.raised = ConnectionRefused
    /\ unit.result.status = "error"

\* C17: a session, authentication or transport failure gives ssh_failed; a
\* connect, login or command time bound exceeded gives timeout; a non-zero
\* exit status or an output outside the date grammar gives error.
C17_FailureClasses ==
    Probed =>
        LET env == unit.env
            status == unit.result.status
        IN /\ env.raised.cause \in {"session", "authentication", "transport"}
                => status = "ssh_failed"
           /\ env.raised.cause = "time_bound" => status = "timeout"
           /\ (env.raised = NoException
               /\ (env.exit_status # 0 \/ parse_cert_date(env.stdout) = None))
                => status = "error"

C19_ValidIsNeverExpired ==
    (Probed /\ unit.result.status = "success"
     /\ unit.result.cert_expiry_date[1] > unit.env.now)
    => unit.tier # "cert_expired"

-----------------------------------------------------------------------------
(* Fan-out: CertificateChecker.check_multiple_certificates *)

\* the host list of a cycle: one entry per node, in either order
HostLists ==
    {[i \in 1..n |-> [host |-> <<"ip", i>>, node_id |-> i]] : n \in 0..MaxHosts}
    \cup
    {[i \in 1..n |-> [host |-> <<"ip", n + 1 - i>>, node_id |-> n + 1 - i]] :
        n \in 0..MaxHosts}

\* the environments the probes of a fan-out meet
GatherEnvs ==
    {[at |-> "none", raised |-> NoException, exit_status |-> 0,
      stdout |-> [prefix |-> "notAfter=", text |-> Some(5 * TicksPerDay),
                  suffix |-> " GMT"], now |-> 0],
     [at |-> "none", raised |-> NoException, exit_status |-> 1,
      stdout |-> [prefix |-> "", text |-> None, suffix |-> ""], now |-> 0],
     [at |-> "connect", raised |-> ConnectTimeout, exit_status |-> 0,
      stdout |-> [prefix |-> "", text |-> None, suffix |-> ""], now |-> 0],
     [at |-> "connect", raised |-> PermissionDenied, exit_status |-> 0,
      stdout |-> [prefix |-> "", text |-> None, suffix |-> ""], now |-> 0]}

\* an exception object in the list asyncio.gather returns
RaisedInProbe == [exception |-> "RuntimeError"]

\* "isinstance(result, Exception)"
IsException(result) == "exception" \in DOMAIN result

\* a probe whose coroutine ends with an exception instead of a result
Faulted ==
    [at |-> "coroutine", raised |-> [name |-> "RuntimeError",
                                     classes |-> {"Exception"},
                                     cause |-> "none"],
     exit_status |-> 0,
     stdout |-> [prefix |-> "", text |-> None, suffix |-> ""], now |-> 0]

\* What asyncio.gather(*tasks, return_exceptions=True) returns for a host
\* list: for each host, in order, the result of its probe or the exception
\* its coroutine ended with.
GatherResults(hosts) ==
    {[i \in 1..Len(hosts) |->
        IF envs[i] = Faulted THEN RaisedInProbe
        ELSE check_certificate(hosts[i].host, hosts[i].node_id, envs[i])] :
        envs \in [1..Len(hosts) -> GatherEnvs \cup {Faulted}]}

\* faulty variant: a fan-out that stops at the first probe that did not succeed
check_until_failure(hosts, results) ==
    LET failed == {i \in 1..Len(hosts) :
                      IsException(results[i]) \/ results[i].status # "success"}
        n == IF failed = {} THEN Len(hosts)
             ELSE (CHOOSE i \in failed : \A j \in failed : i <= j) - 1
    IN [i \in 1..n |-> results[i]]

\* the loop over the gathered results: an exception becomes an error result
check_multiple_certificates(hosts, results) ==
    [i \in 1..Len(hosts) |->
        IF IsException(results[i])
        THEN [node_id |-> hosts[i].node_id, host |-> hosts[i].host,
              status |-> "error",
              error_message |-> Some("Unhandled exception: "),
              days_remaining |-> Some(FailedDays)]
        ELSE results[i]]

\* The loop of check_certificates over check_results: one CertificateCheck
\* per result is added to the session, a result without its expiry key
\* raises KeyError out of the loop, the session is closed without a commit
\* and no row is stored.
PersistChecks(check_results) ==
    IF \A i \in 1..Len(check_results) : HasExpiryKey(check_results[i])
    THEN [raised |-> "none",
          rows |-> [i \in 1..Len(check_results) |->
                      CertificateCheck(check_results[i].node_id, check_results[i])]]
    ELSE [raised |-> "KeyError", rows |-> <<>>]

\* the fan-out returns and the cycle stores its results
GatherStep ==
    /\ unit.kind = "gather"
    /\ ~unit.done
    /\ LET check_results == check_multiple_certificates(unit.hosts, unit.results)
       IN unit' = [unit EXCEPT !.done = TRUE,
                               !.check_results = check_results,
                               !.stored = PersistChecks(check_results)]
    /\ UNCHANGED <<nodes, events, checks, notifications, delivered, day, bot,
                   pc, loc, started, lastSync, cls, life>>

InitGather ==
    /\ nodes = <<>>
    /\ events = <<>>
    /\ checks = <<>>
    /\ notifications = EmptyBag
    /\ delivered = EmptyBag
    /\ day = 1
    /\ bot = TRUE
    /\ pc = [p \in Tasks |-> "idle"]
    /\ loc = [p \in Tasks |-> NoLocals]
    /\ started = NoneStarted
    /\ lastSync = <<>>
    /\ life = Serving
    /\ cls = [days |-> 0, threshold |-> 0, tier |-> "unset"]
    /\ \E hosts \in HostLists : \E results \in GatherResults(hosts) :
         unit = [kind |-> "gather", hosts |-> hosts, results |-> results,
                 done |-> FALSE, check_results |-> <<>>,
                 stored |-> [raised |-> "none", rows |-> <<>>]]

NextGather == GatherStep

SpecGather == InitGather /\ [][NextGather]_vars

-----------------------------------------------------------------------------
(* Properties of the fan-out *)

\* the fan-out under test has returned
Gathered == unit.kind = "gather" /\ unit.done

\* C14: the fan-out returns one result per host, in the order of the hosts,
\* result i with the node id of host i, and every probe that returned a
\* result has that result unchanged, whatever the other probes did.
C14_OneResultPerHost ==
    Gathered =>
        /\ Len(unit.check_results) = Len(unit.hosts)
        /\ \A i \in 1..Len(unit.hosts) :
             /\ unit.check_results[i].node_id = unit.hosts[i].node_id
             /\ ~IsException(unit.results[i])
                  => unit.check_results[i] = unit.results[i]

\* C14 witness: five hosts were probed, the third timed out and the others
\* succeeded.
C14_Witness ==
    /\ Gathered
    /\ Len(unit.hosts) = 5
    /\ [i \in 1..5 |-> unit.check_results[i].status]
         = <<"success", "success", "timeout", "success", "success">>

-----------------------------------------------------------------------------
(* The date of a sweep: date.today().isoformat() *)

\* the host's offset from UTC, in ticks
UtcOffsets == {-1, 0, 1}

\* the instants (UTC, in ticks) at which a sweep may take its date
Instants == 0..MaxSpan

\* the number of the calendar day that holds a local instant
DayOf(ticks) == (ticks - (ticks % TicksPerDay)) \div TicksPerDay

\* date.today(): the calendar date of the host's local clock
date_today(instant, utc_offset) == DayOf(instant + utc_offset)

\* date.isoformat(): 'YYYY-MM-DD', one string per date
isoformat(date) == <<"iso", date>>

\* two sweeps take their today_str
TodayStep ==
    /\ unit.kind = "today"
    /\ ~unit.done
    /\ unit' = [unit EXCEPT
                  !.done = TRUE,
                  !.today_str =
                      [i \in 1..2 |->
                          isoformat(date_today(unit.instants[i], unit.utc_offset))]]
    /\ UNCHANGED <<nodes, events, checks, notifications, delivered, day, bot,
                   pc, loc, started, lastSync, cls, life>>

InitToday ==
    /\ nodes = <<>>
    /\ events = <<>>
    /\ checks = <<>>
    /\ notifications = EmptyBag
    /\ delivered = EmptyBag
    /\ day = 1
    /\ bot = TRUE
    /\ pc = [p \in Tasks |-> "idle"]
    /\ loc = [p \in Tasks |-> NoLocals]
    /\ started = NoneStarted
    /\ lastSync = <<>>
    /\ life = Serving
    /\ cls = [days |-> 0, threshold |-> 0, tier |-> "unset"]
    /\ \E utc_offset \in UtcOffsets, first \in Instants, second \in Instants :
         unit = [kind |-> "today", utc_offset |-> utc_offset,
                 instants |-> <<first, second>>, done |-> FALSE,
                 today_str |-> <<>>]

NextToday == TodayStep

SpecToday == InitToday /\ [][NextToday]_vars

\* C28: two sweeps use the same date key exactly when they run on the same
\* UTC calendar day, whatever the host's offset from UTC.
C28_KeyIsUtcDate ==
    (unit.kind = "today" /\ unit.done) =>
        (unit.today_str[1] = unit.today_str[2]
         <=> DayOf(unit.instants[1]) = DayOf(unit.instants[2]))

-----------------------------------------------------------------------------
(* The allow-list: Config.get_etn_whitelist and the filter of
   NSXClient.get_edge_transport_nodes *)

\* A piece of text between two commas of ETN_WHITELIST, or an address: its
\* non-blank characters and whether blanks surround them.
Piece(text, padded) == [text |-> text, padded |-> padded]
Pieces == [text : {"", "10.0.0.1", "10.0.0.3"}, padded : BOOLEAN]

\* ETN_WHITELIST.split(','): one or two pieces; the empty string is the one
\* empty piece
WhitelistSettings ==
    {<<first>> : first \in Pieces}
    \cup {<<first, second>> : first \in Pieces, second \in Pieces}

\* str.strip()
strip(piece) == Piece(piece.text, FALSE)

\* the truth value of a string
NonEmpty(piece) == piece.text # "" \/ piece.padded

\* Config.get_etn_whitelist
get_etn_whitelist(ETN_WHITELIST) ==
    IF ~(Len(ETN_WHITELIST) > 1 \/ NonEmpty(ETN_WHITELIST[1]))
    THEN {}
    ELSE {strip(ETN_WHITELIST[i]) :
            i \in {j \in 1..Len(ETN_WHITELIST) : NonEmpty(strip(ETN_WHITELIST[j]))}}

\* the ip_addresses lists a transport node may carry
AddressLists ==
    {<<>>, <<Piece("", FALSE)>>, <<Piece("10.0.0.1", FALSE)>>,
     <<Piece("10.0.0.2", FALSE)>>,
     <<Piece("10.0.0.2", FALSE), Piece("10.0.0.1", FALSE)>>}

\* the transport nodes the inventory source may list
TransportNodes(id) ==
    [display_name : {<<"name", id, 2>>},
     maintenance_mode : {"ENABLED"},
     resource_type : {"EdgeNode", "HostNode"},
     ip_addresses : AddressLists]

\* "ip_addresses[0] if ip_addresses else None"
first_address(ip_addresses) ==
    IF Len(ip_addresses) > 0 THEN Some(ip_addresses[1]) ELSE None

\* faulty variant: a filter that lets every address through
PassesAlways(whitelist, ip_address) == TRUE

\* "if whitelist and ip_address not in whitelist: continue"
PassesWhitelist(whitelist, ip_address) ==
    ~(whitelist # {} /\ (ip_address = None \/ ip_address[1] \notin whitelist))

\* the loop of get_edge_transport_nodes over the fetched nodes
edge_nodes_of(all_nodes, whitelist) ==
    LET kept == {id \in DOMAIN all_nodes :
                    LET ip_address == first_address(all_nodes[id].ip_addresses)
                    IN /\ all_nodes[id].resource_type = "EdgeNode"
                       /\ PassesWhitelist(whitelist, ip_address)
                       /\ ip_address # None
                       /\ NonEmpty(ip_address[1])}
    IN [id \in kept |->
            [display_name |-> all_nodes[id].display_name,
             ip_address |-> all_nodes[id].ip_addresses[1],
             maintenance_mode |-> all_nodes[id].maintenance_mode]]

\* the rows the table may hold before the run: none, or one active row per
\* node id with the attributes of an earlier fetch
StoredTables ==
    {<<>>,
     [id \in NodeIds |->
        [display_name |-> <<"name", id, 1>>,
         ip_address |-> Piece("10.0.0.9", FALSE),
         maintenance_mode |-> "DISABLED", is_active |-> TRUE]]}

\* one fetch with its filter, and the reconciliation of what it hands over
FetchStep ==
    /\ unit.kind = "fetch"
    /\ ~unit.done
    /\ LET edge_nodes == edge_nodes_of(unit.all_nodes,
                                       get_etn_whitelist(unit.ETN_WHITELIST))
       IN unit' = [unit EXCEPT
                     !.done = TRUE,
                     !.edge_nodes = edge_nodes,
                     !.table = IF SkipCycle(edge_nodes) THEN unit.table
                               ELSE NodesAfterSync(unit.table, edge_nodes,
                                                   unit.table)]
    /\ UNCHANGED <<nodes, events, checks, notifications, delivered, day, bot,
                   pc, loc, started, lastSync, cls, life>>

InitFetch ==
    /\ nodes = <<>>
    /\ events = <<>>
    /\ checks = <<>>
    /\ notifications = EmptyBag
    /\ delivered = EmptyBag
    /\ day = 1
    /\ bot = TRUE
    /\ pc = [p \in Tasks |-> "idle"]
    /\ loc = [p \in Tasks |-> NoLocals]
    /\ started = NoneStarted
    /\ lastSync = <<>>
    /\ life = Serving
    /\ cls = [days |-> 0, threshold |-> 0, tier |-> "unset"]
    /\ \E ids \in SUBSET NodeIds, ETN_WHITELIST \in WhitelistSettings,
          table \in StoredTables :
         \E all_nodes \in [ids -> UNION {TransportNodes(id) : id \in NodeIds}] :
           /\ \A id \in ids : all_nodes[id] \in TransportNodes(id)
           /\ unit = [kind |-> "fetch", all_nodes |-> all_nodes,
                      ETN_WHITELIST |-> ETN_WHITELIST, stored |-> table,
                      table |-> table, done |-> FALSE, edge_nodes |-> <<>>]

NextFetch == FetchStep

SpecFetch == InitFetch /\ [][NextFetch]_vars

(* Properties of the allow-list *)

\* the addresses the setting names
Allowed == {piece.text : piece \in Range(unit.ETN_WHITELIST)} \ {""}

\* the nodes of the fetch whose address the allow-list does not hold
FilteredOut ==
    {id \in DOMAIN unit.all_nodes :
        /\ Allowed # {}
        /\ \/ unit.all_nodes[id].ip_addresses = <<>>
           \/ unit.all_nodes[id].ip_addresses[1].text \notin Allowed}

-----------------------------------------------------------------------------
(* The dashboard page: the statistics over the latest check of each node *)

\* "select(CertificateCheck).where(node_id == node.id)
\*  .order_by(checked_at.desc()).limit(1)": the latest check of any status
scalar_one_or_none(history, node_id) ==
    LET Rows == {i \in 1..Len(history) : history[i].node_id = node_id}
    IN IF Rows = {} THEN None
       ELSE Some(history[CHOOSE i \in Rows : \A j \in Rows : j <= i])

\* the node_data of each active node
nodes_data(table, history) ==
    [id \in ActiveNodes(table) |->
        LET cert_check == scalar_one_or_none(history, id)
        IN [days_remaining |-> IF cert_check # None
                               THEN Some(cert_check[1].days_remaining)
                               ELSE None,
            check_status |-> IF cert_check # None
                             THEN cert_check[1].check_status
                             ELSE "never_checked"]]

\* the truth value of "n['days_remaining']": None and 0 are false
Truthy(days_remaining) == days_remaining # None /\ days_remaining[1] # 0

\* the nodes each sum of the stats counts
dashboard_counted(table, history) ==
    LET data == nodes_data(table, history)
        Where(test(_)) == {id \in DOMAIN data :
                             /\ Truthy(data[id].days_remaining)
                             /\ test(data[id].days_remaining[1])}
        Ok(days) == days > 30
        Warning(days) == 7 < days /\ days <= 30
        Critical(days) == 0 < days /\ days <= 7
        Expired(days) == days <= 0
    IN [certs_ok |-> Where(Ok),
        certs_warning |-> Where(Warning),
        certs_critical |-> Where(Critical),
        certs_expired |-> Where(Expired),
        certs_error |-> {id \in DOMAIN data :
                           data[id].check_status \notin {"success", "never_checked"}}]

\* the stats of the page
dashboard_stats(table, history) ==
    LET counted == dashboard_counted(table, history)
    IN [key \in DOMAIN counted |-> Cardinality(counted[key])]
       @@ [total_nodes |-> Cardinality(ActiveNodes(table))]

\* the sums that count certificates by their days remaining
ExpiryBuckets == {"certs_ok", "certs_warning", "certs_critical", "certs_expired"}

\* C26: the days_remaining a failed check stores is never read as a number
\* of days: a node a sweep holds in a tier has a successful check of that
\* tier, and the page counts no node whose latest check failed in any of its
\* sums by days remaining.
C26_FailedDaysIsNoDayCount ==
    /\ \A p \in Tasks : \A type \in DOMAIN loc[p].tiers :
         \A id \in loc[p].tiers[type] :
           \E i \in ChecksOf(checks, id) :
              /\ checks[i].check_status = "success"
              /\ Classify(checks[i].days_remaining, CERT_WARNING_DAYS) = type
    /\ \A id \in ActiveNodes(nodes) :
         (ChecksOf(checks, id) # {}
          /\ LastCheck(checks, id).check_status # "success")
         => \A key \in ExpiryBuckets :
              /\ id \notin dashboard_counted(nodes, checks)[key]
              /\ dashboard_stats(nodes, checks)[key]
                   = Cardinality({n \in dashboard_counted(nodes, checks)[key] :
                                    LastCheck(checks, n).check_status = "success"})

-----------------------------------------------------------------------------
(* The lifespan of the application: startup, then requests *)

\* the lifespan before its startup code has run
Created == [phase |-> "created", task |-> 0, requests |-> 0]

\* lifespan up to the first await inside run_initial_sync: the configuration
\* is validated, the tables are created, scheduler_service.start() adds the
\* three cron jobs and starts the scheduler, then sync_nsx_nodes is entered
InitialSync(p, response) ==
    /\ life.phase = "created"
    /\ BeginSync(p, response)
    /\ life' = [life EXCEPT !.phase = "initial_sync", !.task = p]
    /\ UNCHANGED started

\* run_initial_sync: "await self.sync_nsx_nodes()" has returned and
\* check_certificates is entered
InitialCheck(p) ==
    /\ life.phase = "initial_sync"
    /\ pc[life.task] = "idle"
    /\ BeginCheck(p)
    /\ life' = [life EXCEPT !.phase = "initial_check", !.task = p]
    /\ UNCHANGED started

\* faulty variant: a lifespan that yields while run_initial_sync still runs
NotAwaited(phase, returned) == phase \in {"initial_sync", "initial_check"}

\* "await scheduler_service.run_initial_sync()" has returned
Awaited(phase, returned) == phase = "initial_check" /\ returned

\* the lifespan reaches its yield: the server starts to accept requests
Yield ==
    /\ life.phase \in {"initial_sync", "initial_check"}
    /\ Awaited(life.phase, pc[life.task] = "idle")
    /\ life' = [life EXCEPT !.phase = "serving"]
    /\ UNCHANGED <<nodes, events, checks, notifications, delivered, day, bot,
                   pc, loc, started, lastSync, cls, unit>>

\* a read request (the dashboard page, the node and statistics endpoints) is
\* served
ReadRequest ==
    /\ life.phase = "serving"
    /\ life.requests < MaxRequests
    /\ life' = [life EXCEPT !.requests = @ + 1]
    /\ UNCHANGED <<nodes, events, checks, notifications, delivered, day, bot,
                   pc, loc, started, lastSync, cls, unit>>

\* a process start over an empty database, without a Telegram bot
InitStartup ==
    /\ nodes = <<>>
    /\ events = <<>>
    /\ checks = <<>>
    /\ notifications = EmptyBag
    /\ delivered = EmptyBag
    /\ day = 1
    /\ bot = FALSE
    /\ pc = [p \in Tasks |-> "idle"]
    /\ loc = [p \in Tasks |-> NoLocals]
    /\ started = NoneStarted
    /\ lastSync = <<>>
    /\ life = Created
    /\ cls = [days |-> 0, threshold |-> 0, tier |-> "unset"]
    /\ unit = NoUnit

\* a few of the answers of the inventory source: a failure, or the first
\* nodes of the fleet
FewResponses ==
    {response \in Responses :
        \/ response.status = "exception"
        \/ /\ response.status = "ok"
           /\ DOMAIN response.results \in {1..k : k \in NodeIds}
           /\ \A id \in DOMAIN response.results :
                 response.results[id] = InventoryRecord(id, 1)}

\* a few of the results of a probe: one success, one failure
FewOutcomes ==
    {result \in ProbeOutcomes :
        result.status = "error" \/ result.days_remaining = Some(20)}

\* the startup runs, the timer runs of the two jobs beside them, requests;
\* without a bot no run sends or records a notification
NextStartup ==
    \/ \E p \in Tasks, response \in FewResponses : InitialSync(p, response)
    \/ \E p \in Tasks : InitialCheck(p)
    \/ Yield
    \/ ReadRequest
    \/ \E p \in Tasks, response \in FewResponses : StartSync(p, response)
    \/ \E p \in Tasks : StartCheck(p)
    \/ \E p \in Tasks : SyncRead(p)
    \/ \E p \in Tasks : SyncCommit(p)
    \/ \E p \in Tasks : CheckRead(p)
    \/ \E p \in Tasks : \E check_results \in [loc[p].hosts -> FewOutcomes] :
         CheckCommit(p, check_results)

SpecStartup == InitStartup /\ [][NextStartup]_vars

(* Properties of the startup *)

\* C21: the lifespan enters check_certificates only when the startup run of
\* sync_nsx_nodes has returned, it yields only when the startup run of
\* check_certificates has returned, and a read request is served only after
\* the yield.
C21_ReadsAfterStartup ==
    [][/\ (life.phase # "initial_check" /\ life'.phase = "initial_check")
          => /\ life.phase = "initial_sync"
             /\ pc[life.task] = "idle"
             /\ loc[life.task].job = "sync"
       /\ (life.phase # "serving" /\ life'.phase = "serving")
          => /\ life.phase = "initial_check"
             /\ pc[life.task] = "idle"
             /\ loc[life.task].job = "check"
       /\ (life'.requests # life.requests) => life.phase = "serving"]_vars

\* a request is served over what the startup runs have stored
C21_Witness ==
    /\ life.requests > 0
    /\ nodes # <<>>
    /\ checks # <<>>
    /\ started.sync = 0 /\ started.check = 0

\* C22: while the startup run of sync_nsx_nodes has not returned no other
\* run of it is under way, and until the startup run of check_certificates
\* has returned no other run of it is under way.
C22_TimersAfterStartup ==
    \A p \in Tasks :
        (pc[p] # "idle" /\ p # life.task)
        => /\ loc[p].job = "sync" => life.phase # "initial_sync"
           /\ loc[p].job = "check"
                => life.phase \notin {"initial_sync", "initial_check"}

(* Properties of a check cycle *)

\* C25: a check cycle takes as its hosts exactly the nodes that are active
\* when it reads the table, one probe each and none for an inactive node,
\* and the rows a committed cycle appends are one row for each of these
\* hosts and no other row, whatever the table holds by then.
C25_OneProbePerActiveNode ==
    [][\A p \in Tasks :
         /\ (pc[p] = "check_read" /\ pc'[p] = "check_probe")
            => loc'[p].hosts = {id \in DOMAIN nodes : nodes[id].is_active}
         /\ (pc[p] = "check_read" /\ pc'[p] = "idle")
            => /\ \A id \in DOMAIN nodes : ~nodes[id].is_active
               /\ checks' = checks
         /\ (pc[p] = "check_probe" /\ loc'[p].outcome = "committed")
            => LET new == Appended(checks, checks')
               IN /\ SubSeq(checks', 1, Len(checks)) = checks
                  /\ Len(new) = Cardinality(loc[p].hosts)
                  /\ \A id \in loc[p].hosts :
                        Cardinality({i \in 1..Len(new) : new[i].node_id = id}) = 1
                  /\ \A i \in 1..Len(new) : new[i].node_id \in loc[p].hosts]_vars

\* a cycle has stored a failed and a successful check, one per host, and
\* one of its hosts was deactivated after the cycle had read the table
C25_Witness ==
    /\ \E p \in Tasks : pc[p] = "idle" /\ loc[p].job = "check"
                          /\ loc[p].outcome = "committed"
    /\ Len(checks) = 2
    /\ checks[1].node_id # checks[2].node_id
    /\ checks[1].check_status # checks[2].check_status
    /\ \E i \in 1..2 : ~nodes[checks[i].node_id].is_active

-----------------------------------------------------------------------------
(* The three jobs, one run after the other, on a fresh database *)

InitJobs ==
    /\ nodes = <<>>
    /\ events = <<>>
    /\ checks = <<>>
    /\ notifications = EmptyBag
    /\ delivered = EmptyBag
    /\ day = 1
    /\ bot \in BOOLEAN
    /\ pc = [p \in Tasks |-> "idle"]
    /\ loc = [p \in Tasks |-> NoLocals]
    /\ started = NoneStarted
    /\ lastSync = <<>>
    /\ life = Serving
    /\ cls = [days |-> 0, threshold |-> 0, tier |-> "unset"]
    /\ unit = NoUnit

\* a run starts when the run before it has returned
NextJobs ==
    \/ \E p \in Tasks, response \in FewResponses :
         Quiescent /\ StartSync(p, response)
    \/ \E p \in Tasks : Quiescent /\ StartCheck(p)
    \/ \E p \in Tasks : Quiescent /\ StartSweep(p)
    \/ \E p \in Tasks : SyncRead(p)
    \/ \E p \in Tasks : SyncCommit(p)
    \/ \E p \in Tasks : SyncNotifyNew(p)
    \/ \E p \in Tasks : SyncNotifyRemoved(p)
    \/ \E p \in Tasks : CheckRead(p)
    \/ \E p \in Tasks : \E check_results \in [loc[p].hosts -> FewOutcomes] :
         CheckCommit(p, check_results)
    \/ \E p \in Tasks : SweepQuery(p)
    \/ \E p \in Tasks : SweepFilter(p)
    \/ \E p \in Tasks : SweepSend(p)
    \/ \E p \in Tasks : SweepRecord(p)
    \/ DayTick

SpecJobs == InitJobs /\ [][NextJobs]_vars

\* a suspended coroutine is resumed: each await of a job returns or raises
\* (the database answers, a probe is bounded by its timeouts, send_message
\* returns)
Resume ==
    \E p \in Tasks :
        \/ SyncRead(p)
        \/ SyncCommit(p)
        \/ SyncNotifyNew(p)
        \/ SyncNotifyRemoved(p)
        \/ CheckRead(p)
        \/ \E check_results \in [loc[p].hosts -> FewOutcomes] :
             CheckCommit(p, check_results)
        \/ SweepQuery(p)
        \/ SweepFilter(p)
        \/ SweepSend(p)
        \/ SweepRecord(p)

SpecJobsFair == SpecJobs /\ WF_vars(Resume)

(* Properties of the jobs over the life of the process *)

\* the suspension points of the three jobs
Suspensions ==
    {"idle", "sync_read", "sync_commit", "sync_notify_new",
     "sync_notify_removed", "check_read", "check_probe", "sweep_query",
     "sweep_filter", "sweep_send", "sweep_record"}

\* C23: no step of a job leaves it with an exception: a failed fetch and a
\* failed commit end the run with the job returned, a failed probe and a
\* failed delivery leave the run under way, every run that started returns,
\* and once it has returned the next run of each job can start.
C23_FailuresStayInTheRun ==
    /\ [][\A p \in Tasks :
            /\ pc'[p] \in Suspensions
            /\ (pc[p] # "idle" \/ pc'[p] # "idle")
               => /\ loc'[p].outcome \in {"skipped", "rolled_back"}
                     => pc'[p] = "idle"
                  /\ (loc'[p].job = "sync" /\ ~loc'[p].fetch_ok)
                     => pc'[p] = "idle"]_vars
    /\ []<>Quiescent
    /\ [](Quiescent =>
            /\ started.sync < MaxSyncs
                 => \E response \in FewResponses : ENABLED StartSync(1, response)
            /\ started.check < MaxChecks => ENABLED StartCheck(1)
            /\ started.sweep < MaxSweeps => ENABLED StartSweep(1))

\* a run of sync_nsx_nodes failed at its fetch or at its commit and stored
\* nothing; the run after it committed, and a check cycle after that one
\* stored the result of a failed probe
C23_Witness ==
    /\ Quiescent
    /\ started.sync = 2
    /\ nodes # <<>>
    /\ Len(events) = Cardinality(DOMAIN nodes)
    /\ loc[1].job = "check" /\ loc[1].outcome = "committed"
    /\ \E i \in 1..Len(checks) : checks[i].check_status = "error"

\* C24: no step removes a node row, an event row or a check row: the
\* persisted ids never shrink and the events and checks stored before a step
\* are still stored after it, in their order.
C24_NodesAreNeverDeleted ==
    [][/\ DOMAIN nodes \subseteq DOMAIN nodes'
       /\ Len(events) <= Len(events')
       /\ SubSeq(events', 1, Len(events)) = events
       /\ Len(checks) <= Len(checks')
       /\ SubSeq(checks', 1, Len(checks)) = checks]_vars

\* a node was deactivated after a check cycle had stored a check of it, and
\* still has its row, its check and its events
C24_Witness ==
    \E id \in DOMAIN nodes :
        /\ ~nodes[id].is_active
        /\ ChecksOf(checks, id) # {}
        /\ Len(EventsOf(events, id)) = 2
        /\ EventsOf(events, id)[2].event_type = "removed"

-----------------------------------------------------------------------------
(* Check cycles side by side: the timer's cycle and a triggered one *)

\* a synchronised database without a check, and no Telegram bot
InitChecks ==
    /\ \E present \in {1..k : k \in NodeIds} :
         /\ nodes = SyncedNodes(present)
         /\ events = SyncedEvents(present)
    /\ checks = <<>>
    /\ notifications = EmptyBag
    /\ delivered = EmptyBag
    /\ day = 1
    /\ bot = FALSE
    /\ pc = [p \in Tasks |-> "idle"]
    /\ loc = [p \in Tasks |-> NoLocals]
    /\ started = NoneStarted
    /\ lastSync = <<>>
    /\ life = Serving
    /\ cls = [days |-> 0, threshold |-> 0, tier |-> "unset"]
    /\ unit = NoUnit

NextChecks ==
    \/ \E p \in Tasks : StartCheck(p)
    \/ \E p \in Tasks : TriggerCheck(p)
    \/ \E p \in Tasks : CheckRead(p)
    \/ \E p \in Tasks : \E check_results \in [loc[p].hosts -> ProbeOutcomes] :
         CheckCommit(p, check_results)
    \/ DayTick

SpecChecks == InitChecks /\ [][NextChecks]_vars

(* Properties of the check history *)

\* the checks of each node carry non-decreasing checked_at values in the
\* order of their insertion
TimeOrdered(history) ==
    \A i \in 1..Len(history) : \A j \in i..Len(history) :
        history[i].node_id = history[j].node_id
        => history[i].checked_at <= history[j].checked_at

\* C30: every step keeps the stored checks as they are, in their order, and
\* only adds rows after them; the checks of each node stay ordered by
\* checked_at.
C30_HistoryIsAppendOnly ==
    [][/\ Len(checks) <= Len(checks')
       /\ SubSeq(checks', 1, Len(checks)) = checks
       /\ TimeOrdered(checks')]_vars

\* the timer's cycle and a triggered cycle have both stored their check
\* of one node, one before midnight and one after it
C30_Witness ==
    /\ started.check = 1 /\ started.trigger = 1
    /\ Quiescent
    /\ \E i \in 1..Len(checks) : \E j \in 1..Len(checks) :
         /\ i < j
         /\ checks[i].node_id = checks[j].node_id
         /\ checks[i].checked_at = 1
         /\ checks[j].checked_at = 2

(* Properties of a sweep over several tiers *)

\* C32: a sweep that handles the batch of a tier, by a delivery that fails
\* or by a record commit that fails or succeeds, goes on to the next tier
\* whose list is not empty.
C32_TiersAreIndependent ==
    [][\A p \in Tasks :
         (/\ pc[p] \in {"sweep_send", "sweep_record"}
          /\ pc'[p] # pc[p]
          /\ pc'[p] # "sweep_record"
          /\ NextTier(loc[p].tiers, loc[p].tier) # 0)
         => /\ pc'[p] = "sweep_filter"
            /\ loc'[p].tier = NextTier(loc[p].tiers, loc[p].tier)]_vars

(* Properties of the lifecycle notifications *)

\* C38: a run of sync_nsx_nodes sends a lifecycle message only after its
\* commit has succeeded, for the nodes this commit added or found gone; a
\* run whose commit fails returns and sends nothing.
C38_NotifyAfterCommit ==
    [][\A p \in Tasks :
         /\ (pc[p] \in {"sync_notify_new", "sync_notify_removed"}
             /\ pc'[p] # pc[p])
            => /\ loc[p].outcome = "committed"
               /\ \A m \in BagToSet(delivered') :
                    CopiesIn(m, delivered') > CopiesIn(m, delivered)
                    => m.nodes = IF pc[p] = "sync_notify_new"
                                 THEN loc[p].new_nodes ELSE loc[p].removed_nodes
         /\ (pc[p] = "sync_commit" /\ pc'[p] # "sync_commit")
            => IF events' = events \o SyncEvents(loc[p].nsx_nodes,
                                                 loc[p].existing_nodes)
                  /\ loc'[p].outcome = "committed"
               THEN delivered' = delivered
               ELSE /\ pc'[p] = "idle"
                    /\ loc'[p].outcome = "rolled_back"
                    /\ events' = events /\ nodes' = nodes
                    /\ delivered' = delivered]_vars

\* the message of a committed run was delivered, and a run whose commit
\* failed has returned
C38_Witness ==
    /\ \E m \in BagToSet(delivered) : m.type = "new_nodes" /\ m.nodes # {}
    /\ \E p \in Tasks : pc[p] = "idle" /\ loc[p].job = "sync"
                          /\ loc[p].outcome = "rolled_back"

\* C34: a commit of sync_nsx_nodes logs a 'removed' event only for a node
\* whose row it turns from active to inactive, and the removed-node message
\* of the run names only such nodes.
C34_RemovedOnlyOnDeactivation ==
    [][\A p \in Tasks :
         (pc[p] = "sync_commit" /\ pc'[p] # "sync_commit"
          /\ loc'[p].outcome = "committed")
         => /\ \A i \in (Len(events) + 1)..Len(events') :
                 events'[i].event_type = "removed"
                 => /\ nodes[events'[i].node_id].is_active
                    /\ ~nodes'[events'[i].node_id].is_active
            /\ pc'[p] # "idle"
               => \A id \in loc'[p].removed_nodes :
                     nodes[id].is_active /\ ~nodes'[id].is_active]_vars

\* C33: after a commit of sync_nsx_nodes a stored node is active exactly when
\* its id is in the snapshot of the run, and a run whose commit fails leaves
\* every active flag as it was.
C33_ActiveIffInSnapshot ==
    [][\A p \in Tasks :
         (pc[p] = "sync_commit" /\ pc'[p] # "sync_commit")
         => IF loc'[p].outcome = "committed"
            THEN \A id \in DOMAIN nodes' :
                    nodes'[id].is_active <=> id \in DOMAIN loc[p].nsx_nodes
            ELSE /\ DOMAIN nodes' = DOMAIN nodes
                 /\ \A id \in DOMAIN nodes :
                      nodes'[id].is_active = nodes[id].is_active]_vars

(* Properties of concurrent sync cycles *)

\* the 'added' events the log holds for a node id
AddedEvents(id) ==
    {i \in 1..Len(events) :
        events[i].event_type = "added" /\ events[i].node_id = id}

\* the run of task p is about to commit a node another run has inserted since
\* p loaded the table
LostRace(p) ==
    /\ pc[p] = "sync_commit"
    /\ PrimaryKeyConflict(nodes, loc[p].nsx_nodes, loc[p].existing_nodes)

\* C37: in every interleaving of sync runs the event log holds at most one
\* 'added' event per node id and a stored row is never inserted again; a run
\* that lost the race to insert a node stores nothing, returns and delivers
\* no message.
C37_OneInsertPerNode ==
    /\ [](\A id \in NodeIds : Cardinality(AddedEvents(id)) <= 1)
    /\ [][\A p \in Tasks :
            /\ (pc[p] = "sync_commit" /\ pc'[p] # "sync_commit")
               => \A id \in DOMAIN nodes :
                     id \in new_node_ids(loc[p].nsx_nodes, loc[p].existing_nodes)
                     => nodes'[id] = nodes[id]
            /\ (LostRace(p) /\ pc'[p] # pc[p])
               => /\ nodes' = nodes /\ events' = events
                  /\ delivered' = delivered
                  /\ pc'[p] = "idle"
                  /\ loc'[p].outcome = "rolled_back"]_vars

\* one run has inserted a node and sent its message while another run, which
\* loaded the table before, is about to insert the same node
C37_Witness ==
    \E p \in Tasks, q \in Tasks :
        /\ LostRace(p)
        /\ loc[q].job = "sync" /\ loc[q].outcome = "committed"
        /\ \E id \in NodeIds :
             /\ id \in new_node_ids(loc[p].nsx_nodes, loc[p].existing_nodes)
             /\ Cardinality(AddedEvents(id)) = 1
             /\ \E m \in BagToSet(delivered) :
                  m.type = "new_nodes" /\ id \in m.nodes

(* Sweeps on several days over the checks of one cycle *)

\* the day counts at and next to the limits of the tiers
LimitDays == {0, 1, CriticalDays, CriticalDays + 1,
              CERT_WARNING_DAYS, CERT_WARNING_DAYS + 1}

\* The database after the inventory was synchronised and one check cycle
\* stored a successful check of every active node on day 1; no sweep has run.
InitAging ==
    /\ \E present \in {1..k : k \in NodeIds} :
         /\ nodes = SyncedNodes(present)
         /\ events = SyncedEvents(present)
         /\ \E days \in [present -> LimitDays] :
              checks = Inserted(
                  CheckRecords(SeqOf(present),
                      [id \in present |->
                          [status |-> "success",
                           cert_expiry_date |-> Some(days[id] * TicksPerDay),
                           days_remaining |-> Some(days[id])]]), 1)
    /\ notifications = EmptyBag
    /\ delivered = EmptyBag
    /\ day = 1
    /\ bot = TRUE
    /\ pc = [p \in Tasks |-> "idle"]
    /\ loc = [p \in Tasks |-> NoLocals]
    /\ started = NoneStarted
    /\ lastSync = <<>>
    /\ life = Serving
    /\ cls = [days |-> 0, threshold |-> 0, tier |-> "unset"]
    /\ unit = NoUnit

\* the daily sweeps until the next check cycle; midnight may pass
NextAging ==
    \/ \E p \in Tasks : StartSweep(p)
    \/ \E p \in Tasks : SweepQuery(p)
    \/ \E p \in Tasks : SweepFilter(p)
    \/ \E p \in Tasks : SweepSend(p)
    \/ \E p \in Tasks : SweepRecord(p)
    \/ DayTick

SpecAging == InitAging /\ [][NextAging]_vars

\* the days_remaining the newest successful check of a node stores
StoredDays(id) ==
    LET mine == {i \in 1..Len(checks) : /\ checks[i].node_id = id
                                        /\ checks[i].check_status = "success"}
    IN checks[CHOOSE i \in mine : \A j \in mine : j <= i].days_remaining

\* C39: on whatever day a sweep runs, it puts a node in the tier of the
\* days_remaining its newest successful check stores (a sweep that finds every
\* list empty returns at once), and every message of a tier names only nodes
\* of that tier by their stored day count.
C39_TierIgnoresSweepDate ==
    /\ [][\A p \in Tasks :
            (pc[p] = "sweep_query" /\ pc'[p] # "sweep_query")
            => \A type \in Range(NotificationTypes) :
                 \A id \in {checks[i].node_id : i \in 1..Len(checks)} :
                    id \in (IF pc'[p] = "idle" THEN {} ELSE loc'[p].tiers[type])
                    <=> /\ nodes[id].is_active
                        /\ Classify(StoredDays(id), CERT_WARNING_DAYS) = type]_vars
    /\ [](\A m \in BagToSet(delivered) : \A id \in m.nodes :
             Classify(StoredDays(id), CERT_WARNING_DAYS) = m.type)

\* a node whose check stored one day more than the limit of a tier was named
\* by the message of the same tier on the day of the check and on the next
C39_Witness ==
    \E id \in NodeIds, m1 \in BagToSet(delivered), m2 \in BagToSet(delivered) :
        /\ id \in m1.nodes \cap m2.nodes
        /\ m1.type = m2.type
        /\ m1.day = 1 /\ m2.day = 2
        /\ StoredDays(id) \in {1, CriticalDays + 1}

-----------------------------------------------------------------------------
(* One call of NSXClient._make_request *)

\* the nested calls of _make_request the interpreter's stack holds before a
\* further call raises RecursionError
MaxFrames == 5

\* what the inventory source answers to the POST of /api/session/create:
\* 200 with or without an X-XSRF-TOKEN header, another status, or no answer
\* (the request raises)
AuthResponses == {"200_token", "200", "401", "exception"}

\* what it answers to the request itself: a status, or no answer
RequestResponses == {"200", "403", "500", "exception"}

\* NSXClient._get_session: a client without a session creates one and
\* authenticates; the Session object is kept whatever the POST answers
get_session ==
    /\ unit.kind = "request"
    /\ unit.at = "get_session"
    /\ IF unit.session
       THEN unit' = [unit EXCEPT !.at = "request"]
       ELSE \E response \in AuthResponses :
              unit' = [unit EXCEPT
                         !.session = TRUE,
                         !.token = IF response \in {"200_token", "200"}
                                   THEN response = "200_token" ELSE @,
                         !.at = IF response \in {"200_token", "200"}
                                THEN "request" ELSE "raised",
                         !.answers = Append(@, response)]
    /\ UNCHANGED <<nodes, events, checks, notifications, delivered, day, bot,
                   pc, loc, started, lastSync, cls, life>>

\* "response = session.request(...)" and the handling of 403: the session is
\* dropped and _make_request calls itself
make_request ==
    /\ unit.kind = "request"
    /\ unit.at = "request"
    /\ \E response \in RequestResponses :
         unit' =
           IF response = "403"
           THEN [unit EXCEPT
                   !.session = FALSE, !.token = FALSE,
                   !.retries = @ + 1,
                   !.frames = IF @ < MaxFrames THEN @ + 1 ELSE @,
                   !.at = IF unit.frames < MaxFrames
                          THEN "get_session" ELSE "recursion_error",
                   !.answers = Append(@, response)]
           ELSE [unit EXCEPT
                   !.at = IF response = "exception" THEN "raised" ELSE "returned",
                   !.status = response,
                   !.answers = Append(@, response)]
    /\ UNCHANGED <<nodes, events, checks, notifications, delivered, day, bot,
                   pc, loc, started, lastSync, cls, life>>

\* a client that has no session yet or kept the one of an earlier request
InitRequest ==
    /\ nodes = <<>>
    /\ events = <<>>
    /\ checks = <<>>
    /\ notifications = EmptyBag
    /\ delivered = EmptyBag
    /\ day = 1
    /\ bot = TRUE
    /\ pc = [p \in Tasks |-> "idle"]
    /\ loc = [p \in Tasks |-> NoLocals]
    /\ started = NoneStarted
    /\ lastSync = <<>>
    /\ life = Serving
    /\ cls = [days |-> 0, threshold |-> 0, tier |-> "unset"]
    /\ \E session \in BOOLEAN, token \in BOOLEAN :
         /\ token => session
         /\ unit = [kind |-> "request", session |-> session, token |-> token,
                    frames |-> 1, retries |-> 0, at |-> "get_session",
                    status |-> "none", answers |-> <<>>]

NextRequest == get_session \/ make_request

SpecRequest == InitRequest /\ [][NextRequest]_vars

\* C40: whatever the inventory source answers, a call of _make_request ends
\* by returning a response or by raising the failure of a request; its
\* re-authentication retries never use up the stack.
C40_RetriesAreBounded ==
    unit.kind = "request" => unit.at # "recursion_error"

-----------------------------------------------------------------------------
(* The timestamps of the node rows: first_seen_at and last_seen_at *)

\* faulty variant: first_seen_at declared with onupdate like last_seen_at
first_seen_onupdate(row, utcnow) == utcnow

\* "first_seen_at = Column(DateTime, default=datetime.utcnow)": no UPDATE
\* sets the column
first_seen_kept(row, utcnow) == row.first_seen_at

\* The timestamps after the flush of a run that commits at utcnow (to the
\* day). A new row gets both from its constructor. A row of the snapshot is
\* assigned last_seen_at. A row found gone is assigned is_active only: when
\* that changes the row, its UPDATE has no last_seen_at in its SET clause and
\* the column takes its onupdate value, datetime.utcnow.
SeenAfterSync(seen, nsx_nodes, existing_nodes, utcnow) ==
    [id \in DOMAIN seen \cup DOMAIN nsx_nodes |->
        IF id \notin DOMAIN existing_nodes
        THEN IF id \in DOMAIN nsx_nodes
             THEN [first_seen_at |-> utcnow, last_seen_at |-> utcnow]
             ELSE seen[id]
        ELSE IF id \in DOMAIN nsx_nodes
        THEN [first_seen_at |-> first_seen_kept(seen[id], utcnow),
              last_seen_at |-> utcnow]
        ELSE IF existing_nodes[id].is_active
        THEN [first_seen_at |-> first_seen_kept(seen[id], utcnow),
              last_seen_at |-> utcnow]
        ELSE seen[id]]

\* get_stats: "select(func.max(TransportNode.last_seen_at))", 0 for no row
last_sync(seen) ==
    IF DOMAIN seen = {} THEN 0
    ELSE CHOOSE t \in {seen[id].last_seen_at : id \in DOMAIN seen} :
            \A id \in DOMAIN seen : seen[id].last_seen_at <= t

\* the commit step of a run, with the timestamps of the rows it stores
SeenCommit(p) ==
    /\ unit.kind = "seen"
    /\ ReconcileAndCommit(p)
    /\ unit' = IF loc'[p].outcome = "committed"
               THEN [unit EXCEPT
                       !.seen = SeenAfterSync(@, loc[p].nsx_nodes,
                                              loc[p].existing_nodes, day),
                       !.included = day]
               ELSE unit

\* an empty table; no message is sent without a bot
InitSeen ==
    /\ nodes = <<>>
    /\ events = <<>>
    /\ checks = <<>>
    /\ notifications = EmptyBag
    /\ delivered = EmptyBag
    /\ day = 1
    /\ bot = FALSE
    /\ pc = [p \in Tasks |-> "idle"]
    /\ loc = [p \in Tasks |-> NoLocals]
    /\ started = NoneStarted
    /\ lastSync = <<>>
    /\ life = Serving
    /\ cls = [days |-> 0, threshold |-> 0, tier |-> "unset"]
    /\ unit = [kind |-> "seen", seen |-> <<>>, included |-> 0]

NextSeen ==
    \/ \E p \in Tasks, response \in Responses : StartSync(p, response)
    \/ \E p \in Tasks : SyncRead(p)
    \/ \E p \in Tasks : SeenCommit(p)
    \/ DayTick

SpecSeen == InitSeen /\ [][NextSeen]_vars

\* the nodes a committing run of task p deactivates
Deactivated(p) ==
    {id \in removed_node_ids(loc[p].nsx_nodes, loc[p].existing_nodes) :
        loc[p].existing_nodes[id].is_active}

\* C35: a commit that deactivates a node changes only its is_active: the
\* row keeps its last_seen_at, first_seen_at, display_name and ip_address, and
\* the newest last_seen_at of the table is the time of the last committed
\* snapshot.
C35_DeactivationKeepsLastSeen ==
    [][\A p \in Tasks :
         (pc[p] = "sync_commit" /\ pc'[p] # "sync_commit"
          /\ loc'[p].outcome = "committed")
         => /\ \A id \in Deactivated(p) :
                 /\ unit'.seen[id] = unit.seen[id]
                 /\ nodes'[id].display_name = nodes[id].display_name
                 /\ nodes'[id].ip_address = nodes[id].ip_address
            /\ last_sync(unit'.seen) = unit'.included]_vars

\* C36: first_seen_at is set when the row of a node is inserted, to the time
\* of that commit, and no later step changes it, whether the node is
\* refreshed, deactivated or reappears.
C36_FirstSeenSetOnce ==
    [][/\ \A id \in DOMAIN unit.seen :
            /\ id \in DOMAIN unit'.seen
            /\ unit'.seen[id].first_seen_at = unit.seen[id].first_seen_at
       /\ \A id \in DOMAIN unit'.seen \ DOMAIN unit.seen :
            unit'.seen[id].first_seen_at = day]_vars

\* a node inserted on day 1 was found gone and came back on day 2
C36_Witness ==
    /\ unit.kind = "seen"
    /\ \E id \in DOMAIN unit.seen :
         /\ unit.seen[id] = [first_seen_at |-> 1, last_seen_at |-> 2]
         /\ nodes[id].is_active
         /\ \E i \in 1..Len(events), j \in 1..Len(events) :
              /\ i < j
              /\ events[i].node_id = id /\ events[i].event_type = "removed"
              /\ events[j].node_id = id /\ events[j].event_type = "reappeared"

-----------------------------------------------------------------------------
(* Sweeps that keep running on one day *)

\* the record commits that fail before the store recovers
MaxFaults == 2

\* one more run of send_expiry_notifications, as long as sweeps keep running
KeepSweeping(p) ==
    /\ unit.kind = "retry"
    /\ SchedulerMayFire
    /\ BeginSweep(p)
    /\ UNCHANGED started

\* the send step; a tier whose delivery failed is remembered
RetrySend(p) ==
    /\ unit.kind = "retry"
    /\ SendTier(p)
    /\ unit' = IF delivered' = delivered
               THEN [unit EXCEPT !.failed = @ \cup {loc[p].tier}]
               ELSE unit

\* the record step; the commit fails MaxFaults times at most
RetryRecord(p) ==
    /\ unit.kind = "retry"
    /\ RecordTier(p)
    /\ IF loc'[p].outcome = "rolled_back"
       THEN /\ unit.faults < MaxFaults
            /\ unit' = [unit EXCEPT !.faults = @ + 1]
       ELSE unit' = unit

\* The database after the inventory was synchronised and one check cycle over
\* the active nodes was stored; no sweep has run on this day.
InitRetry ==
    /\ \E present \in {1..k : k \in NodeIds} :
         /\ nodes = SyncedNodes(present)
         /\ events = SyncedEvents(present)
         /\ \E check_results \in [present -> ProbeOutcomes] :
              checks = Inserted(CheckRecords(SeqOf(present), check_results), 1)
    /\ notifications = EmptyBag
    /\ delivered = EmptyBag
    /\ day = 1
    /\ bot = TRUE
    /\ pc = [p \in Tasks |-> "idle"]
    /\ loc = [p \in Tasks |-> NoLocals]
    /\ started = NoneStarted
    /\ lastSync = <<>>
    /\ life = Serving
    /\ cls = [days |-> 0, threshold |-> 0, tier |-> "unset"]
    /\ unit = [kind |-> "retry", faults |-> 0, failed |-> {}]

NextRetry ==
    \/ \E p \in Tasks : KeepSweeping(p)
    \/ \E p \in Tasks : SweepQuery(p)
    \/ \E p \in Tasks : SweepFilter(p)
    \/ \E p \in Tasks : RetrySend(p)
    \/ \E p \in Tasks : RetryRecord(p)

SpecRetry == InitRetry /\ [][NextRetry]_vars

\* a delivery of a sweep succeeds
Accepted == \E p \in Tasks : RetrySend(p) /\ delivered' # delivered

\* Sweeps keep being started, the event loop resumes a coroutine whose await
\* has completed, and the sink does not refuse every message for ever.
SpecRetryFair ==
    /\ SpecRetry
    /\ WF_vars(\E p \in Tasks : KeepSweeping(p))
    /\ WF_vars(\E p \in Tasks : SweepQuery(p) \/ SweepFilter(p)
                                   \/ RetrySend(p) \/ RetryRecord(p))
    /\ SF_vars(Accepted)

\* the node has its record of the tier for today, and a message of the tier
\* sent today names it
Notified(id, type) ==
    /\ ExistingNotification(notifications, id, type, day) # {}
    /\ \E m \in BagToSet(delivered) :
         m.type = type /\ m.day = day /\ id \in m.nodes

====
